---- MODULE Spec2Model ----
(***************************************************************************)
(* Model of the process supervisor of MCServerJS (servers/server.ts):      *)
(* the Server class, its state field and setter, start(), execute(),       *)
(* stop(), quit(), acceptEula(), the handlers start() attaches to the      *)
(* child process ('error', stdout 'data', 'exit') and the log/warn/error   *)
(* helpers; and of the Versions class (versions.ts): the memoized          *)
(* manifest, the fact cache behind ./versions.json and the views.          *)
(*                                                                         *)
(* JavaScript runs the supervisor on one thread: every action below is one *)
(* run-to-completion step (a call up to its first await, the continuation  *)
(* of an await, or one event callback).                                    *)
(***************************************************************************)
EXTENDS Integers, Sequences, FiniteSets, TLC

\* ---- bounds of the model ------------------------------------------------
MaxChildren == 2     \* child processes spawned over a run
MaxCalls    == 3     \* caller invocations of start/execute/stop/quit
MaxChunks   == 2     \* stdout 'data' events over a run
MaxChunkLen == 2     \* records in one stdout chunk
MaxSpin     == 1     \* quit()'s loop iterations are counted modulo MaxSpin + 1
MaxViews    == 2     \* views of Versions requested over a run
MaxVersions == 2     \* entries of the version manifest
MaxEntries  == 2     \* entries of each list of the Fabric metadata document
MaxLines    == 2     \* lines of server.properties
MaxLineLen  == 3     \* characters of a line of server.properties
MaxPairs    == 1     \* pairs passed to one setProperties call
MaxOps      == 1     \* calls of a provisioner, validateVersion or start over a run
MaxTextLen  == 3     \* pieces of the text of one stdout chunk
MaxServers  == 2     \* supervisors constructed over a run

\* ---- shared.ts: ServerStatus, LogType -----------------------------------
ServerStatus == {"STOPPED", "CRASHED", "STARTING", "RUNNING", "STOPPING"}

LogType == {"ERROR", "WARN", "INFO"}

\* the line terminator os.EOL written after every command
EOL == "EOL"

\* the command texts a caller passes to execute()
Commands == {"say"}

\* exit codes handed to the 'exit' handler: 0, a non-zero code, or null
\* (the process was killed by a signal)
ExitCodes == {"0", "1", "null"}

\* what eula.txt holds when it exists: the line the server wrote or the caller
\* set, in either letter case
EulaContents == {"eula=false", "eula=true", "EULA=TRUE"}

\* records of child output after the split of a chunk: whether the record
\* contains "/WARN]", whether it contains "/ERROR]", and which of the key
\* patterns (Done, Stopping server, EULA) it matches
\* (a record of the server's output matches at most one of the key patterns)
Records ==
  { [warn |-> FALSE, error |-> FALSE, key |-> "done"],
    [warn |-> FALSE, error |-> FALSE, key |-> "stop"],
    [warn |-> FALSE, error |-> FALSE, key |-> "eula"],
    [warn |-> TRUE,  error |-> FALSE, key |-> "none"] }

RECURSIVE SeqsUpTo(_, _)
SeqsUpTo(S, n) ==
  IF n = 0 THEN {<<>>}
  ELSE LET shorter == SeqsUpTo(S, n - 1)
       IN shorter \cup {Append(q, x) : q \in {r \in shorter : Len(r) = n - 1}, x \in S}

\* the non-empty message arrays a 'data' event can carry
Chunks == SeqsUpTo(Records, MaxChunkLen) \ {<<>>}

\* every combination of the severity markers with a key pattern
AllRecords == [warn : BOOLEAN, error : BOOLEAN, key : {"done", "stop", "eula", "none"}]

AllChunks == SeqsUpTo(AllRecords, MaxChunkLen) \ {<<>>}

\* ---- the upstream version service ------------------------------------------------
\* the version ids the upstream service knows
Known == {"r0", "r1", "s1"}

\* IVersionInfo.type of a version
TypeOf(id) == IF id = "s1" THEN "snapshot" ELSE "release"

\* the metadata document behind IVersionInfo.url: the downloads it lists
Metadata(id) ==
  [id |-> id,
   downloads |-> CASE id = "r1" -> {"client", "client_mappings", "server", "server_mappings"}
                   [] id = "s1" -> {"client", "server"}
                   [] OTHER -> {"client"}]

\* sequences without repetition
Distinct(q) == \A i, j \in DOMAIN q : q[i] = q[j] => i = j

\* the manifests the service can serve: known versions in any order
Manifests == {m \in SeqsUpTo(Known, MaxVersions) : Distinct(m)}

\* the views of Versions
Kinds == {"servers", "serverMappings", "clientMappings"}

VARIABLES
  state,      \* Server.#state
  process,    \* Server.process: 0 is undefined, otherwise the child's number
  child,      \* life cycle of each spawned child process
  stdin,      \* what has been written to each child's stdin
  events,     \* events emitted by the latest step, in emission order
  logs,       \* entries the latest step pushed to Server.#logs, in order
  startPc,    \* where the accepted start() call is suspended
  startRet,   \* result delivered to the caller of the last accepted start()
  exit,       \* the 'exit' event the latest step handled, if it handled one
  call,       \* the most recent caller invocation and its synchronous result
  chunks,     \* stdout 'data' events delivered so far
  loads,      \* loadProperties() promises not yet settled
  quitPc,     \* "idle", or "spin" while quit() is inside its while loop
  spins,      \* iterations of quit()'s loop so far, modulo MaxSpin + 1
  data,       \* the 'data' event the latest step handled, if it handled one
  observed,   \* what a listener attached with on('stateUpdate') has received
  eulaTxt,    \* content of <path>/eula.txt
  eulaPc,     \* where the acceptEula() call in progress is suspended
  eulaRet,    \* result delivered to the caller of the last acceptEula()
  manifestP,      \* Versions.#manifest: the memoized promise of the manifest
  manifestReqs,   \* requests sent to the version manifest URL
  manifestDoc,    \* the manifest the upstream service serves: version ids in order
  versionsRef,    \* Versions.#versions: 0 is undefined, otherwise an object of heap
  heap,           \* the fact maps load() has created, by object number
  file,           \* ./versions.json
  fileReads,      \* readFile calls on ./versions.json
  metaReqs,       \* requests sent for each version's metadata document
  views,          \* the views requested so far and where each one is suspended
  fabricP,        \* Versions.#fabricManifest: the memoized promise of the Fabric manifest
  spigotP,        \* Versions.#spigotManifest: the memoized promise of the Spigot manifest
  propFile,       \* <path>/server.properties: whether it exists, and its lines
  propData,       \* Properties.#data
  propOp,         \* the call on the properties store in progress
  propRet,        \* how the latest call on the properties store settled
  propRead,       \* what readFile of the load a ready record started has read so far
  variant,        \* the class of the supervisor: Server, SpigotServer or FabricServer
  cfg,            \* Server.version, FabricServer.loader, .installer, .#useLatestInstaller
  jar,            \* <path>/server.jar
  infoFile,       \* <path>/version.json
  buildtool,      \* whether <buildPath>/BuildTools.jar exists
  buildjar,       \* whether the jar a build leaves in <buildPath> exists
  prov,           \* the call of a provisioner, validateVersion or start in progress
  downloads,      \* the URLs the latest call has passed to download(), in order
  builds,         \* build processes the latest call has spawned
  DefaultOptions, \* Server.DefaultOptions, the static object of the class
  servers         \* the supervisors constructed so far: class, options given, fields set

\* the supervisor and its install directory
svars == <<state, process, child, stdin, events, logs, startPc, startRet,
           exit, call, chunks, loads, quitPc, spins, data, observed,
           eulaTxt, eulaPc, eulaRet>>

\* the Versions class, its cache file and the upstream service
vvars == <<manifestP, manifestReqs, manifestDoc, versionsRef, heap, file,
           fileReads, metaReqs, views>>

\* the Fabric and Spigot manifests of the Versions class
fvars == <<fabricP, spigotP>>

\* the properties store and its file
pvars == <<propFile, propData, propOp, propRet, propRead>>

\* the configured version, the install directory and the provisioners
ivars == <<variant, cfg, jar, infoFile, buildtool, buildjar, prov, downloads, builds,
           DefaultOptions, servers>>

vars == <<svars, vvars, fvars, pvars, ivars>>

Children == 1..MaxChildren

\* ---- events and log entries ----------------------------------------------
MessageEvent(type, content) == [ev |-> "message", type |-> type, arg |-> content]

StateUpdateEvent(s) == [ev |-> "stateUpdate", type |-> "-", arg |-> s]

EulaEvent == [ev |-> "eula", type |-> "-", arg |-> "-"]

\* no 'exit' event
NoExit == [child |-> 0, code |-> "-", at |-> "-"]

\* no 'data' event
NoData == [child |-> 0, text |-> <<>>, messages |-> <<>>]

\* The part of the supervisor the helpers below transform, as a step finds it:
\* the state field, the events emitted and the log entries pushed by this step
\* (none yet), the pending property loads and the 'exit' event handled (none).
Sv == [state |-> state, events |-> <<>>, logs |-> <<>>, loads |-> loads,
       exit |-> NoExit, data |-> NoData]

\* the states carried by the stateUpdate events of a step, in emission order
StateUpdates(evs) ==
  LET su == SelectSeq(evs, LAMBDA e : e.ev = "stateUpdate")
  IN [i \in 1..Len(su) |-> su[i].arg]

\* the step's effect on the supervisor; an attached stateUpdate listener runs
\* once for every stateUpdate the step emits
Effect(sv) ==
  /\ state' = sv.state
  /\ events' = sv.events
  /\ logs' = sv.logs
  /\ loads' = sv.loads
  /\ exit' = sv.exit
  /\ data' = sv.data
  /\ observed' = IF observed.on
                 THEN [observed EXCEPT !.seq = @ \o StateUpdates(sv.events)]
                 ELSE observed

\* a step of the supervisor that touches neither Versions nor the artifact
Apply(sv) ==
  /\ Effect(sv)
  /\ UNCHANGED <<vvars, fvars, ivars>>

\* a step of the supervisor that touches neither eula.txt nor the
\* properties store
Commit(sv) ==
  /\ Apply(sv)
  /\ UNCHANGED <<eulaTxt, eulaPc, eulaRet>>
  /\ UNCHANGED pvars

\* log helpers that put the entry at the front of #logs
EmitUnshift(sv, type, content) ==
  [sv EXCEPT !.events = Append(@, MessageEvent(type, content)),
             !.logs = <<[type |-> type, content |-> content]>> \o @]

\* Server.error / Server.warn / Server.log: emit 'message', then push to #logs
Emit(sv, type, content) ==
  [sv EXCEPT !.events = Append(@, MessageEvent(type, content)),
             !.logs = Append(@, [type |-> type, content |-> content])]

error(sv, content) == Emit(sv, "ERROR", content)

warn(sv, content) == Emit(sv, "WARN", content)

log(sv, content) == Emit(sv, "INFO", content)

\* a setter that emits 'stateUpdate' before it assigns #state
SetStateStale(sv, s) ==
  [sv EXCEPT !.events = Append(@, StateUpdateEvent(sv.state)), !.state = s]

\* set state(state): assign #state, then emit 'stateUpdate' with #state
SetState(sv, s) ==
  [sv EXCEPT !.state = s, !.events = Append(@, StateUpdateEvent(s))]

\* a start gate that only looks at whether the server is running
canStartLoose(s) == s # "RUNNING"

\* get canStart
canStart(s) == s = "STOPPED" \/ s = "CRASHED"

\* a stop gate that is still open while the server is stopping
canStopLoose(s) == s = "RUNNING" \/ s = "STOPPING"

\* get canStop
canStop(s) == s = "RUNNING"

\* new ServerStateError(state): the message names the state in lower case
ServerStateError(s) == [name |-> "ServerStateError", named |-> s]

NoError == [name |-> "-", named |-> "-"]

\* `Illegal Action: The server is currently ${state}.`
IllegalAction(s) == "Illegal Action: " \o s

\* this.process?.stdin?.write(text); this.process?.stdin?.write(EOL)
WriteLine(in, p, text) ==
  IF p = 0 THEN in ELSE [in EXCEPT ![p] = @ \o <<text, EOL>>]

\* JavaScript is single threaded: nothing else runs while quit() loops
Free == quitPc = "idle"

\* an 'error' event queued with process.nextTick runs before any I/O event
ErrorPending == \E c \in Children : child[c] = "failing"

Spawned == {c \in Children : child[c] # "unborn"}

TypeOK ==
  /\ state \in ServerStatus
  /\ process \in 0..MaxChildren
  /\ child \in [Children -> {"unborn", "alive", "failing", "failed", "exited", "gone"}]
  /\ startPc \in {"idle", "mkdir", "validate", "build"}
  /\ startRet \in {"none", "pending", "ok", "error"}
  /\ quitPc \in {"idle", "spin"}
  /\ chunks \in 0..MaxChunks
  /\ loads \in 0..(MaxChunks * MaxChunkLen)
  /\ spins \in 0..MaxSpin
  /\ data.child \in 0..MaxChildren
  /\ observed.on \in BOOLEAN
  /\ eulaTxt \in EulaContents \cup {"absent"}
  /\ eulaPc.at \in {"idle", "read", "write"}
  /\ eulaRet \in {"none", "pending", "true", "false", "error"}

\* no acceptEula() in progress
EulaIdle == [at |-> "idle", accept |-> FALSE, content |-> "-"]

\* ---- properties.ts: Properties ---------------------------------------------------
\* the characters of a line: a letter, the separator and the comment sign
\* (the lines of the model hold no white space)
Chars == {"k", "=", "#"}

\* the lines a file can hold
Lines == SeqsUpTo(Chars, MaxLineLen)

\* server.properties holding these lines
PropFile(lines) == [exists |-> TRUE, lines |-> lines]

\* no server.properties
NoPropFile == [exists |-> FALSE, lines |-> <<>>]

\* what server.properties can hold when it exists: content.split('\n') of
\* any content has at least one line
Files == {PropFile(lines) : lines \in SeqsUpTo(Lines, MaxLines) \ {<<>>}}

\* the server.properties a server writes while it starts
DefaultFile == PropFile(<< <<"#", "k">>, <<"k", "=", "k">> >>)

\* PropertyData: a comment is kept as the line itself, a property as
\* { name, value }, any other line as null
CommentData(line) == [kind |-> "Comment", raw |-> line, name |-> <<>>, value |-> <<>>]

KeyValueData(name, value) == [kind |-> "KeyValue", raw |-> <<>>, name |-> name, value |-> value]

BlankData == [kind |-> "Blank", raw |-> <<>>, name |-> <<>>, value |-> <<>>]

\* CommentPattern = /^#.+$/i
CommentPattern(line) == Len(line) >= 2 /\ line[1] = "#"

\* the positions of '=' in a line
Separators(line) == {e \in DOMAIN line : line[e] = "="}

\* the leading white space of a line: \s* can consume any prefix of it
LeadingSpace(line) ==
  {p \in 0..Len(line) : \A i \in 1..p : line[i] = " "}

\* where (.+) can start: after white space \s* consumed, not at a '#', and
\* with at least one character before some '='
NameStarts(line) ==
  {p \in LeadingSpace(line) :
     /\ p < Len(line)
     /\ line[p + 1] # "#"
     /\ \E e \in Separators(line) : e >= p + 2}

Max(S) == CHOOSE x \in S : \A y \in S : y <= x

Min(S) == CHOOSE x \in S : \A y \in S : x <= y

\* line.match(PropertyPattern) with PropertyPattern = /^\s*(?!#)(.+)=(.*)$/i:
\* \s* and (.+) are greedy, so the match consumes as much leading white space
\* as it can and (.+) runs up to the last '=' of the line
PropertyPattern(line) ==
  IF NameStarts(line) = {}
  THEN [matched |-> FALSE, name |-> <<>>, value |-> <<>>]
  ELSE LET p == Max(NameStarts(line))
           e == Max(Separators(line))
       IN [matched |-> TRUE,
           name |-> SubSeq(line, p + 1, e - 1),
           value |-> SubSeq(line, e + 1, Len(line))]

\* the callback of data.map in loadProperties
ParseLine(line) ==
  IF CommentPattern(line) THEN CommentData(line)
  ELSE LET match == PropertyPattern(line)
       IN IF match.matched THEN KeyValueData(match.name, match.value)
          ELSE BlankData

\* loadProperties on the lines of the file
ParseLines(lines) == [i \in DOMAIN lines |-> ParseLine(lines[i])]

\* the callback of newData.map in setProperties
FormatLine(line) ==
  CASE line.kind = "Blank" -> <<>>
    [] line.kind = "KeyValue" -> line.name \o <<"=">> \o line.value
    [] line.kind = "Comment" -> line.raw

\* newData.map(...).join(EOL), as the lines a reader of the file finds:
\* the empty content is one empty line
FormatLines(newData) ==
  IF newData = <<>> THEN << <<>> >>
  ELSE [i \in DOMAIN newData |-> FormatLine(newData[i])]

\* a map callback that appends nothing but renames the line to the pair found
\* by value
SetLineByValue(line, properties) ==
  IF line.kind # "KeyValue" THEN line
  ELSE LET found == SelectSeq(properties, LAMBDA prop : prop.value = line.value)
       IN IF found = <<>> THEN line ELSE KeyValueData(found[1].name, found[1].value)

\* the callback of this.#data.map in setProperties:
\* properties.find(prop => prop.name === line.name) || line
SetLine(line, properties) ==
  IF line.kind # "KeyValue" THEN line
  ELSE LET found == SelectSeq(properties, LAMBDA prop : prop.name = line.name)
       IN IF found = <<>> THEN line ELSE KeyValueData(found[1].name, found[1].value)

\* this.#data.filter(line => !!line && typeof line !== 'string')
Properties(lines) == SelectSeq(lines, LAMBDA line : line.kind = "KeyValue")

\* no call on the properties store in progress
PropIdle == [pc |-> "idle", properties |-> <<>>, newData |-> <<>>]

\* no call on the properties store has settled
NoPropRet == [op |-> "-", status |-> "none", existed |-> FALSE]

\* readFile of a load started by a ready record has read nothing yet
NoRead == [read |-> FALSE, exists |-> FALSE, lines |-> <<>>]

\* the properties store after construction
StoreFresh ==
  /\ propData = <<>>
  /\ propOp = PropIdle
  /\ propRet = NoPropRet
  /\ propRead = NoRead

\* the outcomes of readFile(this.path): it fails when the file does not exist
\* and can fail when it does
ReadOutcomes == IF propFile.exists THEN BOOLEAN ELSE {FALSE}

\* ---- the install directory and the configured version ------------------------------
\* Server, SpigotServer and FabricServer
Variants == {"vanilla", "spigot", "fabric"}

\* the fields of IOptions
OptionKeys == {"minMemory", "softMaxMemory", "maxMemory", "javaPath", "path"}

\* Server.DefaultOptions and SpigotServer.DefaultOptions as the classes
\* declare them
DeclaredOptions ==
  [minMemory |-> 256, softMaxMemory |-> 512, maxMemory |-> 1024,
   javaPath |-> "DEFAULT_JAVA_PATH", path |-> "./server"]

\* the values a caller passes for the fields it sets
CallerOptions ==
  [minMemory |-> 512, softMaxMemory |-> 1024, maxMemory |-> 2048,
   javaPath |-> "/opt/java/bin", path |-> "./other"]

\* an options argument that sets the fields given; undefined sets none
Options(given) == [k \in given |-> CallerOptions[k]]

\* Object.assign(target, source): target with the fields of source written
\* over its own
ObjectAssign(target, source) ==
  [k \in DOMAIN target \cup DOMAIN source |->
     IF k \in DOMAIN source THEN source[k] ELSE target[k]]

\* the classes as loaded: nothing constructed
ClassesLoaded ==
  /\ DefaultOptions = DeclaredOptions
  /\ servers = <<>>

\* no server.jar
NoJar == [exists |-> FALSE, kind |-> "-", id |-> "-", hasInfo |-> FALSE]

\* a server.jar: which provisioner's artifact it is, the version it is, and
\* whether it embeds a version.json
Jar(kind, id, hasInfo) == [exists |-> TRUE, kind |-> kind, id |-> id, hasInfo |-> hasInfo]

\* no version.json
NoInfo == [exists |-> FALSE, id |-> "-"]

\* a version.json recording id
Info(id) == [exists |-> TRUE, id |-> id]

\* the value of info?.id when getVersionInfo returns undefined
Undefined == "undefined"

\* a URL passed to download()
Url(kind, version, loader, installer) ==
  [kind |-> kind, version |-> version, loader |-> loader, installer |-> installer]

\* no call in progress
ProvIdle ==
  [n |-> 0, op |-> "-", force |-> FALSE, pc |-> "idle", view |-> 0,
   gvi |-> "-", gforce |-> FALSE, result |-> "-", error |-> "-"]

\* a supervisor that has not been asked for its artifact
ProvisionerFresh ==
  /\ prov = ProvIdle
  /\ downloads = <<>>
  /\ builds = 0

\* runs that do not follow the artifact: a Server constructed without a
\* version on an empty install directory
InstallUnused ==
  /\ variant = "vanilla"
  /\ cfg = [version |-> "", loader |-> "", installer |-> "", useLatestInstaller |-> FALSE]
  /\ jar = NoJar
  /\ infoFile = NoInfo
  /\ buildtool = FALSE
  /\ buildjar = FALSE
  /\ ClassesLoaded

\* the supervisor after construction
Constructed ==
  /\ state = "STOPPED"
  /\ process = 0
  /\ child = [c \in Children |-> "unborn"]
  /\ stdin = [c \in Children |-> <<>>]
  /\ events = <<>>
  /\ logs = <<>>
  /\ startPc = "idle"
  /\ startRet = "none"
  /\ exit = NoExit
  /\ call = [n |-> 0, op |-> "-", arg |-> "-", status |-> "-", err |-> NoError]
  /\ chunks = 0
  /\ loads = 0
  /\ quitPc = "idle"
  /\ spins = 0
  /\ data = NoData
  /\ eulaPc = EulaIdle
  /\ eulaRet = "none"
  /\ StoreFresh
  /\ ProvisionerFresh

\* Versions.#spigotManifest before the first access
SpigotUnset == [st |-> "unset", value |-> "-"]

\* Versions.#fabricManifest before the first access
FabricUnset == [st |-> "unset", value |-> "-"]

\* a fact map without entries
EmptyMap == [id \in {} |-> {}]

\* no ./versions.json
NoFile == [exists |-> FALSE, map |-> EmptyMap]

\* the Versions class when the module has been loaded
VersionsFresh ==
  /\ manifestP = [st |-> "unset", by |-> 0]
  /\ manifestReqs = 0
  /\ versionsRef = 0
  /\ heap = <<>>
  /\ fileReads = 0
  /\ metaReqs = [id \in Known |-> 0]
  /\ views = <<>>
  /\ fabricP = FabricUnset
  /\ spigotP = SpigotUnset

\* runs in which nobody asks Versions for a view
VersionsUnused ==
  /\ VersionsFresh
  /\ manifestDoc = <<>>
  /\ file = NoFile

\* a supervisor nobody listens to, in an install directory without eula.txt
Init ==
  /\ Constructed
  /\ observed = [on |-> FALSE, seq |-> <<>>]
  /\ eulaTxt = "absent"
  /\ propFile = DefaultFile
  /\ InstallUnused
  /\ VersionsUnused

NewCall(op, arg, status, err) ==
  [n |-> call.n + 1, op |-> op, arg |-> arg, status |-> status, err |-> err]

\* ---- Server.start ------------------------------------------------------------
\* catch (err) { this.error(err.message); throw err } of an accepted start()
StartThrows(sv) ==
  /\ Commit(error(sv, "start failed"))
  /\ startRet' = "error"
  /\ startPc' = "idle"

\* spawn('java', ...), the registration of the handlers and
\* this.process = process.  spawn either returns a running child, returns a
\* child whose 'error' event is queued (the executable could not be launched),
\* or throws.
Spawn(sv0) ==
  LET sv == log(sv0, "Starting child process...")
      c == Cardinality(Spawned) + 1
  IN \E outcome \in {"ok", "error", "throw"} :
       IF outcome = "throw"
       THEN /\ StartThrows(sv)
            /\ UNCHANGED <<process, child, stdin>>
       ELSE /\ Commit(sv)
            /\ child' = [child EXCEPT ![c] = IF outcome = "ok" THEN "alive" ELSE "failing"]
            /\ process' = c
            /\ startRet' = "ok"
            /\ startPc' = "idle"
            /\ UNCHANGED stdin

\* start() from the call to its first await
CallStart ==
  /\ Free
  /\ call.n < MaxCalls
  /\ IF ~canStart(state)
     THEN /\ Commit(error(Sv, IllegalAction(state)))
          /\ call' = NewCall("start", "-", "rejected", ServerStateError(state))
          /\ UNCHANGED <<startPc, startRet>>
     ELSE /\ Cardinality(Spawned) < MaxChildren
          /\ call' = NewCall("start", "-", "accepted", NoError)
          /\ startRet' = "pending"
          /\ LET sv == log(SetState(Sv, "STARTING"), "Attempting to start server...")
             IN \E dirExists \in BOOLEAN :
                  IF dirExists
                  THEN Commit(sv) /\ startPc' = "validate"
                  ELSE Commit(warn(sv, "Creating server directory...")) /\ startPc' = "mkdir"
  /\ UNCHANGED <<process, child, stdin, chunks, quitPc, spins>>

\* await mkdir(path) settles
StartMkdirDone ==
  /\ Free /\ ~ErrorPending
  /\ startPc = "mkdir"
  /\ \E ok \in BOOLEAN :
       IF ok
       THEN Commit(Sv) /\ startPc' = "validate" /\ UNCHANGED startRet
       ELSE StartThrows(Sv)
  /\ UNCHANGED <<process, child, stdin, call, chunks, quitPc, spins>>

\* await this.validateVersion() settles: the version on disk is the configured
\* one, it is not, or getVersionInfo failed
StartValidateDone ==
  /\ Free /\ ~ErrorPending
  /\ startPc = "validate"
  /\ \E isCorrectVersion \in {"true", "false", "throws"} :
       CASE isCorrectVersion = "throws" ->
              StartThrows(Sv) /\ UNCHANGED <<process, child, stdin>>
         [] isCorrectVersion = "false" ->
              /\ Commit(log(Sv, "Downloading server jar..."))
              /\ startPc' = "build"
              /\ UNCHANGED <<process, child, stdin, startRet>>
         [] isCorrectVersion = "true" -> Spawn(Sv)
  /\ UNCHANGED <<call, chunks, quitPc, spins>>

\* await this.buildJar(true, ...) settles
StartBuildDone ==
  /\ Free /\ ~ErrorPending
  /\ startPc = "build"
  /\ \E ok \in BOOLEAN :
       IF ok
       THEN Spawn(Sv)
       ELSE /\ StartThrows(SetState(Sv, "CRASHED"))
            /\ UNCHANGED <<process, child, stdin>>
  /\ UNCHANGED <<call, chunks, quitPc, spins>>

\* ---- handlers attached to the child process ------------------------------------
\* process.on('error', ...)
ChildError(c) ==
  /\ Free
  /\ child[c] = "failing"
  /\ Commit(SetState(error(Sv, "Failed to start the server."), "CRASHED"))
  /\ child' = [child EXCEPT ![c] = "failed"]
  /\ UNCHANGED <<process, stdin, startPc, startRet, call, chunks, quitPc, spins>>

WarnPattern(m) == m.warn

ErrorPattern(m) == m.error

DonePattern(m) == m.key = "done"

StopPattern(m) == m.key = "stop"

EulaPattern(m) == m.key = "eula"

Content(m) ==
  m.key \o (IF m.warn THEN " /WARN]" ELSE "") \o (IF m.error THEN " /ERROR]" ELSE "")

\* a severity test that looks for the error marker first
SeverityErrorFirst(m) ==
  IF ErrorPattern(m) THEN "ERROR" ELSE IF WarnPattern(m) THEN "WARN" ELSE "INFO"

\* WarnPattern.test(message) ? warn : ErrorPattern.test(message) ? error : log
Severity(m) ==
  IF WarnPattern(m) THEN "WARN" ELSE IF ErrorPattern(m) THEN "ERROR" ELSE "INFO"

\* an EULA branch that emits 'eula' before it assigns the state
OnEulaEarly(sv) ==
  LET warned == warn(sv, "the user must accept the EULA...")
  IN SetState([warned EXCEPT !.events = Append(@, EulaEvent)], "STOPPING")

\* the branch of a record that matches EulaPattern
OnEula(sv) ==
  LET stopping == SetState(warn(sv, "the user must accept the EULA..."), "STOPPING")
  IN [stopping EXCEPT !.events = Append(@, EulaEvent)]

\* body of messages.forEach(message => ...)
HandleMessage(sv, m) ==
  LET sv1 == Emit(sv, Severity(m), Content(m))
  IN IF DonePattern(m)
     THEN LET running == SetState(log(sv1, "Server is running..."), "RUNNING")
          IN [log(running, "Loading properties...") EXCEPT !.loads = @ + 1]
     ELSE IF StopPattern(m)
     THEN SetState(log(sv1, "Server is stopping..."), "STOPPING")
     ELSE IF EulaPattern(m)
     THEN OnEula(sv1)
     ELSE sv1

RECURSIVE HandleMessages(_, _)
HandleMessages(sv, messages) ==
  IF messages = <<>> THEN sv
  ELSE HandleMessages(HandleMessage(sv, Head(messages)), Tail(messages))

\* The text of a chunk, String(data), is a sequence of pieces: a line break,
\* a record (text that starts with the timestamp/thread prefix and runs up to
\* the end of its line or the next prefix; its fields say which patterns it
\* matches), or text without prefix, marker or key pattern.
NL == [kind |-> "nl", warn |-> FALSE, error |-> FALSE, key |-> "none"]

Plain == [kind |-> "text", warn |-> FALSE, error |-> FALSE, key |-> "none"]

Prefixed(m) == [kind |-> "record", warn |-> m.warn, error |-> m.error, key |-> m.key]

\* the texts a 'data' event can carry
Texts == SeqsUpTo({NL, Plain} \cup {Prefixed(m) : m \in Records}, MaxTextLen) \ {<<>>}

\* .replace(Server.PrefixPattern, '\n$&')
RECURSIVE ReplacePrefix(_)
ReplacePrefix(text) ==
  IF text = <<>> THEN <<>>
  ELSE (IF Head(text).kind = "record" THEN <<NL, Head(text)>> ELSE <<Head(text)>>)
       \o ReplacePrefix(Tail(text))

\* .split('\n')
RECURSIVE SplitLines(_)
SplitLines(text) ==
  IF \A i \in DOMAIN text : text[i] # NL THEN <<text>>
  ELSE LET i == CHOOSE k \in DOMAIN text :
                  text[k] = NL /\ \A j \in 1..(k - 1) : text[j] # NL
       IN <<SubSeq(text, 1, i - 1)>> \o SplitLines(SubSeq(text, i + 1, Len(text)))

\* the patterns a message matches are those its pieces match
Matches(message) ==
  LET keyed == SelectSeq(message, LAMBDA t : t.key # "none")
  IN [warn |-> \E i \in DOMAIN message : message[i].warn,
      error |-> \E i \in DOMAIN message : message[i].error,
      key |-> IF keyed = <<>> THEN "none" ELSE Head(keyed).key]

\* const messages = String(data).replace(...).split('\n').filter(m => !!m)
SplitMessages(text) ==
  LET messages == SelectSeq(SplitLines(ReplacePrefix(text)), LAMBDA m : m # <<>>)
  IN [i \in DOMAIN messages |-> Matches(messages[i])]

\* a text that splits into these messages: each record on a line of its own
RECURSIVE TextOf(_)
TextOf(messages) ==
  IF messages = <<>> THEN <<>>
  ELSE <<Prefixed(Head(messages)), NL>> \o TextOf(Tail(messages))

\* process.stdout.on('data', ...): the stream of a child can still deliver
\* data after the child's 'exit' event
StdoutData(c, text) ==
  LET messages == SplitMessages(text)
  IN /\ Free /\ ~ErrorPending
     /\ child[c] \in {"alive", "exited"}
     /\ chunks < MaxChunks
     /\ chunks' = chunks + 1
     /\ Commit(HandleMessages([Sv EXCEPT !.data = [child |-> c, text |-> text,
                                                   messages |-> messages]],
                              messages))
     /\ UNCHANGED <<process, child, stdin, startPc, startRet, call, quitPc, spins>>

\* a 'data' event whose text splits into the given messages
ChildData(c, messages) == StdoutData(c, TextOf(messages))

\* readFile(this.path, 'utf-8') of the loadProperties() a ready record
\* started reads the file; the call settles in a later step
LoadReads ==
  /\ Free /\ ~ErrorPending
  /\ loads > 0
  /\ ~propRead.read
  /\ propRead' = [read |-> TRUE, exists |-> propFile.exists, lines |-> propFile.lines]
  /\ Apply(Sv)
  /\ UNCHANGED <<eulaTxt, eulaPc, eulaRet, propFile, propData, propOp, propRet>>
  /\ UNCHANGED <<process, child, stdin, startPc, startRet, call, chunks, quitPc, spins>>

\* the content readFile hands to loadProperties: what it read when it read,
\* the file as it is when reading and settling are one step
LoadContent == IF propRead.read THEN [exists |-> propRead.exists, lines |-> propRead.lines]
               ELSE propFile

\* loadProperties() settles: this.#data = content.split('\n').map(...), then
\* .then(() => this.log(...)).catch(() => this.error(...))
PropertiesLoaded ==
  /\ Free /\ ~ErrorPending
  /\ loads > 0
  /\ \E ok \in IF LoadContent.exists THEN BOOLEAN ELSE {FALSE} :
       LET sv == IF ok THEN log(Sv, "Successfully loaded properties.")
                 ELSE error(Sv, "Failed to load properties.")
       IN /\ Apply([sv EXCEPT !.loads = @ - 1])
          /\ propData' = IF ok THEN ParseLines(LoadContent.lines) ELSE propData
  /\ propRead' = NoRead
  /\ UNCHANGED <<eulaTxt, eulaPc, eulaRet, propFile, propOp, propRet>>
  /\ UNCHANGED <<process, child, stdin, startPc, startRet, call, chunks, quitPc, spins>>

\* an exit handler that tests the code for truthiness (null counts as 0)
ExitStateFalsy(code) == IF code \in {"0", "null"} THEN "STOPPED" ELSE "CRASHED"

\* an exit handler with the branches of the conditional swapped
ExitStateSwapped(code) == IF code = "0" THEN "CRASHED" ELSE "STOPPED"

\* code === 0 ? 'STOPPED' : 'CRASHED'
ExitState(code) == IF code = "0" THEN "STOPPED" ELSE "CRASHED"

\* process.on('exit', (code, signal) => ...); Node may or may not emit 'exit'
\* after 'error'
ChildExit(c, code) ==
  /\ Free /\ ~ErrorPending
  /\ child[c] \in {"alive", "failed"}
  /\ LET sv == SetState([Sv EXCEPT !.exit = [child |-> c, code |-> code, at |-> state]],
                        ExitState(code))
     IN Commit(IF code = "null" THEN error(sv, "Server exited with signal")
               ELSE IF code # "0" THEN error(sv, "Server exited with code")
               ELSE log(sv, "Server Stopped"))
  /\ process' = 0
  /\ child' = [child EXCEPT ![c] = IF @ = "alive" THEN "exited" ELSE "gone"]
  /\ UNCHANGED <<stdin, startPc, startRet, call, chunks, quitPc, spins>>

\* ---- Server.execute / Server.stop / Server.quit ---------------------------------
\* a send that moves the supervisor to STOPPING itself when it writes "stop"
SendStopping(op, arg, logged, text) ==
  /\ Free
  /\ call.n < MaxCalls
  /\ IF ~canStop(state)
     THEN /\ Commit(error(Sv, IllegalAction(state)))
          /\ call' = NewCall(op, arg, "rejected", ServerStateError(state))
          /\ UNCHANGED stdin
     ELSE /\ Commit(IF text = "stop" THEN SetState(log(Sv, logged), "STOPPING")
                    ELSE log(Sv, logged))
          /\ stdin' = WriteLine(stdin, process, text)
          /\ call' = NewCall(op, arg, "accepted", NoError)
  /\ UNCHANGED <<process, child, startPc, startRet, chunks, quitPc, spins>>

\* execute(command) and stop(): the gate, the log entry and the two writes
Send(op, arg, logged, text) ==
  /\ Free
  /\ call.n < MaxCalls
  /\ IF ~canStop(state)
     THEN /\ Commit(error(Sv, IllegalAction(state)))
          /\ call' = NewCall(op, arg, "rejected", ServerStateError(state))
          /\ UNCHANGED stdin
     ELSE /\ Commit(log(Sv, logged))
          /\ stdin' = WriteLine(stdin, process, text)
          /\ call' = NewCall(op, arg, "accepted", NoError)
  /\ UNCHANGED <<process, child, startPc, startRet, chunks, quitPc, spins>>

CallExecute(command) == Send("execute", command, command, command)

CallStop == Send("stop", "-", "Attempting to stop the server...", "stop")

\* quit() up to its while loop
CallQuit ==
  /\ Free
  /\ call.n < MaxCalls
  /\ IF canStart(state)
     THEN /\ call' = NewCall("quit", "-", "returned", NoError)
          /\ UNCHANGED quitPc
     ELSE /\ call' = NewCall("quit", "-", "waiting", NoError)
          /\ quitPc' = "spin"
  /\ Commit(Sv)
  /\ UNCHANGED <<process, child, stdin, startPc, startRet, chunks, spins>>

\* one evaluation of while (!this.canStop) continue, and what follows the loop
QuitSpin ==
  /\ quitPc = "spin"
  /\ IF canStop(state)
     THEN /\ stdin' = WriteLine(stdin, process, "stop")
          /\ call' = [call EXCEPT !.status = "wrote"]
          /\ quitPc' = "idle"
          /\ UNCHANGED spins
     ELSE /\ spins' = (spins + 1) % (MaxSpin + 1)
          /\ UNCHANGED <<stdin, call, quitPc>>
  /\ Commit(Sv)
  /\ UNCHANGED <<process, child, startPc, startRet, chunks>>

\* ---- Server.acceptEula ------------------------------------------------------------
\* a replacement that only ever turns eula=false into eula=true
ReplaceEulaAccepting(content, accept) ==
  IF content = "eula=false" THEN "eula=true" ELSE content

\* content.replace(/eula=(true|false)/gim, `eula=${accept}`)
ReplaceEula(content, accept) ==
  IF content \in {"eula=false", "eula=true", "EULA=TRUE"}
  THEN IF accept THEN "eula=true" ELSE "eula=false"
  ELSE content

\* `eula=${accept}`
EulaLine(accept) == IF accept THEN "eula=true" ELSE "eula=false"

\* acceptEula(accept) up to its await: readFile(this.eula) is issued
CallAcceptEula(accept) ==
  /\ Free
  /\ call.n < MaxCalls
  /\ eulaPc = EulaIdle
  /\ call' = NewCall("acceptEula", EulaLine(accept), "accepted", NoError)
  /\ eulaPc' = [at |-> "read", accept |-> accept, content |-> "-"]
  /\ eulaRet' = "pending"
  /\ Apply(Sv)
  /\ UNCHANGED pvars
  /\ UNCHANGED <<process, child, stdin, startPc, startRet, chunks, quitPc, spins, eulaTxt>>

\* readFile settles: .then(content => writeFile(this.eula, ...)) issues the
\* write, or the rejection (no eula.txt) passes through to the caller
AcceptEulaRead ==
  /\ Free /\ ~ErrorPending
  /\ eulaPc.at = "read"
  /\ IF eulaTxt = "absent"
     THEN eulaPc' = EulaIdle /\ eulaRet' = "error"
     ELSE /\ eulaPc' = [eulaPc EXCEPT !.at = "write",
                                      !.content = ReplaceEula(eulaTxt, eulaPc.accept)]
          /\ UNCHANGED eulaRet
  /\ Apply(Sv)
  /\ UNCHANGED pvars
  /\ UNCHANGED <<process, child, stdin, startPc, startRet, call, chunks, quitPc, spins, eulaTxt>>

\* writeFile settles, then return accept
AcceptEulaWritten ==
  /\ Free /\ ~ErrorPending
  /\ eulaPc.at = "write"
  /\ \E ok \in BOOLEAN :
       IF ok
       THEN /\ eulaTxt' = eulaPc.content
            /\ eulaRet' = IF eulaPc.accept THEN "true" ELSE "false"
       ELSE /\ eulaRet' = "error"
            /\ UNCHANGED eulaTxt
  /\ eulaPc' = EulaIdle
  /\ Apply(Sv)
  /\ UNCHANGED pvars
  /\ UNCHANGED <<process, child, stdin, startPc, startRet, call, chunks, quitPc, spins>>

Next ==
  \/ CallStart
  \/ StartMkdirDone
  \/ StartValidateDone
  \/ StartBuildDone
  \/ \E c \in Children : ChildError(c)
  \/ \E c \in Children, messages \in Chunks : ChildData(c, messages)
  \/ PropertiesLoaded
  \/ \E c \in Children, code \in ExitCodes : ChildExit(c, code)
  \/ \E command \in Commands : CallExecute(command)
  \/ CallStop
  \/ CallQuit
  \/ QuitSpin

Spec == Init /\ [][Next]_vars

\* the event loop runs every callback that is ready, and quit()'s loop keeps
\* iterating
FairSpec == Spec /\ WF_vars(Next)

\* ---- the 'data' handler on its own ---------------------------------------------
\* a supervisor whose first child is alive, in one of the states it goes
\* through while the child lives
DataInit ==
  /\ state \in {"STARTING", "RUNNING", "STOPPING"}
  /\ process = 1
  /\ child = [c \in Children |-> IF c = 1 THEN "alive" ELSE "unborn"]
  /\ stdin = [c \in Children |-> <<>>]
  /\ events = <<>>
  /\ logs = <<>>
  /\ startPc = "idle"
  /\ startRet = "ok"
  /\ exit = NoExit
  /\ call = [n |-> 1, op |-> "start", arg |-> "-", status |-> "accepted", err |-> NoError]
  /\ chunks = 0
  /\ loads = 0
  /\ quitPc = "idle"
  /\ spins = 0
  /\ data = NoData
  /\ observed = [on |-> FALSE, seq |-> <<>>]
  /\ eulaTxt = "absent"
  /\ eulaPc = EulaIdle
  /\ eulaRet = "none"
  /\ StoreFresh
  /\ ProvisionerFresh
  /\ propFile = DefaultFile
  /\ InstallUnused
  /\ VersionsUnused

\* one 'data' event carrying any chunk of records
DataNext == \E messages \in AllChunks : chunks = 0 /\ ChildData(1, messages)

DataSpec == DataInit /\ [][DataNext]_vars

\* one 'data' event carrying any text
TextNext == \E text \in Texts : chunks = 0 /\ StdoutData(1, text)

TextSpec == DataInit /\ [][TextNext]_vars

\* ---- one run under observation --------------------------------------------------
DoneRecord == [warn |-> FALSE, error |-> FALSE, key |-> "done"]

StopRecord == [warn |-> FALSE, error |-> FALSE, key |-> "stop"]

\* a supervisor constructed with a stateUpdate listener attached
ScenarioInit ==
  /\ Constructed
  /\ observed = [on |-> TRUE, seq |-> <<>>]
  /\ eulaTxt = "absent"
  /\ propFile = DefaultFile
  /\ InstallUnused
  /\ VersionsUnused

\* the stop() of the run has been accepted
StopAccepted == call.op = "stop" /\ call.status = "accepted"

\* The caller calls start() once, then sends commands and calls stop() until a
\* stop() is accepted; the child reports that it is ready while the
\* supervisor is starting, may report that it is stopping once it has been
\* told to stop, and exits at any time.
ScenarioNext ==
  \/ call.n = 0 /\ CallStart
  \/ StartMkdirDone
  \/ StartValidateDone
  \/ StartBuildDone
  \/ \E c \in Children : ChildError(c)
  \/ state = "STARTING" /\ ChildData(1, <<DoneRecord>>)
  \/ PropertiesLoaded
  \/ call.n > 0 /\ ~StopAccepted /\ \E command \in Commands : CallExecute(command)
  \/ call.n > 0 /\ ~StopAccepted /\ CallStop
  \/ StopAccepted /\ ChildData(1, <<StopRecord>>)
  \/ \E code \in ExitCodes : ChildExit(1, code)

ScenarioSpec == ScenarioInit /\ [][ScenarioNext]_vars

\* ---- the EULA prompt ----------------------------------------------------------------
EulaRecord == [warn |-> FALSE, error |-> FALSE, key |-> "eula"]

\* a supervisor in an install directory that may hold an eula.txt already
EulaInit ==
  /\ Constructed
  /\ observed = [on |-> FALSE, seq |-> <<>>]
  /\ eulaTxt \in EulaContents \cup {"absent"}
  /\ propFile = DefaultFile
  /\ InstallUnused
  /\ VersionsUnused

\* The caller starts the server and answers the EULA prompt with acceptEula();
\* the child reports that it is ready or that the EULA has to be accepted,
\* and exits.
EulaNext ==
  \/ CallStart
  \/ StartMkdirDone
  \/ StartValidateDone
  \/ StartBuildDone
  \/ \E c \in Children : ChildError(c)
  \/ \E c \in Children, m \in {EulaRecord, DoneRecord} : ChildData(c, <<m>>)
  \/ PropertiesLoaded
  \/ \E c \in Children, code \in ExitCodes : ChildExit(c, code)
  \/ \E accept \in BOOLEAN : CallAcceptEula(accept)
  \/ AcceptEulaRead
  \/ AcceptEulaWritten

EulaSpec == EulaInit /\ [][EulaNext]_vars

\* ---- versions.ts: Versions --------------------------------------------------------
\* Every action is one run-to-completion step of a view: the getter up to
\* .then(), the .then() callback up to the first await of getVersionData, or
\* the continuation of one of its awaits.

\* the elements of a sequence
Range(q) == {q[i] : i \in DOMAIN q}

\* the entry getVersionData stores for a metadata document
Facts(version) ==
  [hasClientMappings |-> "client_mappings" \in version.downloads,
   hasServer |-> "server" \in version.downloads,
   hasServerMappings |-> "server_mappings" \in version.downloads]

\* versions.forEach(version => { versionData[version.id] = ... })
Store(map, versions) ==
  [id \in DOMAIN map \cup {v.id : v \in Range(versions)} |->
     IF \E v \in Range(versions) : v.id = id
     THEN Facts(CHOOSE v \in Range(versions) : v.id = id)
     ELSE map[id]]

\* the flag a view filters on
Flag(kind, facts) ==
  CASE kind = "servers" -> facts.hasServer
    [] kind = "serverMappings" -> facts.hasServerMappings
    [] kind = "clientMappings" -> facts.hasClientMappings

\* a latest that looks at the whole manifest
FindAny(versions, type) ==
  LET hits == SelectSeq(manifestDoc, LAMBDA id : TypeOf(id) = type)
  IN IF hits = <<>> THEN "" ELSE Head(hits)

\* versions.find(v => v.type === type)?.id || ''
Find(versions, type) ==
  LET hits == SelectSeq(versions, LAMBDA id : TypeOf(id) = type)
  IN IF hits = <<>> THEN "" ELSE Head(hits)

\* what a view returns once it has the manifest and the fact map
View(kind, manifest, versionData) ==
  LET versions == SelectSeq(manifest, LAMBDA id : Flag(kind, versionData[id]))
  IN [latest |-> [release |-> Find(versions, "release"),
                  snapshot |-> Find(versions, "snapshot")],
      versions |-> versions]

NoResult == [latest |-> [release |-> "-", snapshot |-> "-"], versions |-> <<>>]

\* a getter that sends a request on every access
ManifestGetterFresh ==
  [p |-> [st |-> "pending", by |-> manifestReqs + 1], reqs |-> manifestReqs + 1]

\* a getter that sends a new request once the last one has failed
ManifestGetterRetry ==
  IF manifestP.st \in {"unset", "rejected"}
  THEN [p |-> [st |-> "pending", by |-> manifestReqs + 1], reqs |-> manifestReqs + 1]
  ELSE [p |-> manifestP, reqs |-> manifestReqs]

\* static get manifest(): the promise and the number of requests after the access
ManifestGetter ==
  IF manifestP.st = "unset"
  THEN [p |-> [st |-> "pending", by |-> manifestReqs + 1], reqs |-> manifestReqs + 1]
  ELSE [p |-> manifestP, reqs |-> manifestReqs]

\* a promise reaction is queued: the callback of a settled manifest promise or
\* the continuation of await this.load() when load() returned {} without I/O.
\* Queued reactions run before any I/O completes.
Microtask ==
  \E v \in DOMAIN views :
     \/ views[v].pc = "manifest" /\ manifestP.st \in {"resolved", "rejected"}
     \/ views[v].pc = "loaded"

\* an access to Versions.manifest by a caller
AccessManifest ==
  /\ manifestP' = ManifestGetter.p
  /\ manifestReqs' = ManifestGetter.reqs
  /\ UNCHANGED <<manifestDoc, versionsRef, heap, file, fileReads, metaReqs, views>>
  /\ UNCHANGED <<svars, fvars, pvars, ivars>>

\* an access to Versions.servers, .serverMappings or .clientMappings:
\* this.manifest.then(async manifest => ...)
AccessView(kind) ==
  /\ Len(views) < MaxViews
  /\ manifestP' = ManifestGetter.p
  /\ manifestReqs' = ManifestGetter.reqs
  /\ views' = Append(views, [kind |-> kind, pc |-> "manifest", got |-> 0, obj |-> 0,
                             filtered |-> <<>>, content |-> EmptyMap,
                             result |-> NoResult, error |-> "-"])
  /\ UNCHANGED <<manifestDoc, versionsRef, heap, file, fileReads>>

\* an access to a view by a caller
RequestView(kind) ==
  /\ AccessView(kind)
  /\ UNCHANGED metaReqs
  /\ UNCHANGED <<svars, fvars, pvars, ivars>>

\* the request for the manifest settles
ManifestSettles(ok) ==
  /\ manifestP.st = "pending"
  /\ ~Microtask
  /\ manifestP' = [manifestP EXCEPT !.st = IF ok THEN "resolved" ELSE "rejected"]
  /\ UNCHANGED <<manifestReqs, manifestDoc, versionsRef, heap, file, fileReads,
                 metaReqs, views>>
  /\ UNCHANGED <<svars, fvars, pvars, ivars>>

\* the promise of a view is settled: its locals are gone
Settled(view, how) ==
  [view EXCEPT !.pc = how, !.obj = 0, !.filtered = <<>>, !.content = EmptyMap,
               !.error = IF how = "failed" THEN "rejected" ELSE "-"]

\* return this.#versions, and the rest of the view's callback: the filter
\* throws a TypeError when the map lacks an entry of the manifest
Return(view, ref, h) ==
  IF Range(manifestDoc) \subseteq DOMAIN h[ref]
  THEN [Settled(view, "done") EXCEPT !.result = View(view.kind, manifestDoc, h[ref])]
  ELSE [Settled(view, "failed") EXCEPT !.error = "TypeError"]

\* getVersionData from const versionData = this.#versions to its next
\* await or its return, for view v holding object ref of heap h
Continue(v, view, ref, h) ==
  LET filteredInfo == SelectSeq(manifestDoc, LAMBDA id : id \notin DOMAIN h[ref])
  IN IF filteredInfo # <<>>
     THEN /\ views' = [views EXCEPT ![v] = [view EXCEPT !.pc = "fetch", !.obj = ref,
                                                        !.filtered = filteredInfo]]
          /\ metaReqs' = [id \in Known |->
                            metaReqs[id] + (IF id \in Range(filteredInfo) THEN 1 ELSE 0)]
     ELSE /\ views' = [views EXCEPT ![v] = Return([view EXCEPT !.obj = ref], ref, h)]
          /\ UNCHANGED metaReqs

\* the .then() callback of view v runs: the manifest request failed, or
\* getVersionData(manifest) starts and runs to its first await
ViewManifest(v) ==
  /\ views[v].pc = "manifest"
  /\ manifestP.st \in {"resolved", "rejected"}
  /\ \A u \in 1..(v - 1) : views[u].pc # "manifest"
  /\ LET view == [views[v] EXCEPT !.got = manifestP.by]
     IN IF manifestP.st = "rejected"
        THEN /\ views' = [views EXCEPT ![v] = Settled(view, "failed")]
             /\ UNCHANGED <<fileReads, metaReqs>>
        ELSE IF versionsRef # 0
        THEN Continue(v, view, versionsRef, heap) /\ UNCHANGED fileReads
        ELSE IF ~file.exists
        THEN /\ views' = [views EXCEPT ![v] = [view EXCEPT !.pc = "loaded"]]
             /\ UNCHANGED <<fileReads, metaReqs>>
        ELSE /\ views' = [views EXCEPT ![v] = [view EXCEPT !.pc = "read"]]
             /\ fileReads' = fileReads + 1
             /\ UNCHANGED metaReqs
  /\ UNCHANGED <<manifestP, manifestReqs, manifestDoc, versionsRef, heap, file>>
  /\ UNCHANGED <<svars, fvars, pvars, ivars>>

\* await this.load() settles for view v: this.#versions = <the loaded map>,
\* then getVersionData continues; readFile or JSON.parse can fail
LoadDone(v, ok) ==
  /\ views[v].pc \in {"loaded", "read"}
  /\ views[v].pc = "read" => ~Microtask
  /\ IF views[v].pc = "read" /\ ~ok
     THEN /\ views' = [views EXCEPT ![v] = Settled(@, "failed")]
          /\ UNCHANGED <<versionsRef, heap, metaReqs>>
     ELSE LET loaded == IF views[v].pc = "read" THEN file.map ELSE EmptyMap
              h == Append(heap, loaded)
          IN /\ heap' = h
             /\ versionsRef' = Len(h)
             /\ Continue(v, views[v], Len(h), h)
  /\ UNCHANGED <<manifestP, manifestReqs, manifestDoc, file, fileReads>>
  /\ UNCHANGED <<svars, fvars, pvars, ivars>>

\* a batch that stores the entries of the requests that succeeded before it
\* fails for the one that did not
FetchDonePartial(v, ok) ==
  /\ views[v].pc = "fetch"
  /\ ~Microtask
  /\ LET got == IF ok THEN views[v].filtered
                ELSE SubSeq(views[v].filtered, 1, Len(views[v].filtered) - 1)
         versions == [i \in DOMAIN got |-> Metadata(got[i])]
         h == [heap EXCEPT ![views[v].obj] = Store(@, versions)]
     IN /\ heap' = h
        /\ views' = IF ok
                    THEN [views EXCEPT ![v].pc = "save", ![v].filtered = <<>>,
                                       ![v].content = h[versionsRef]]
                    ELSE [views EXCEPT ![v] = Settled(@, "failed")]
  /\ UNCHANGED <<manifestP, manifestReqs, manifestDoc, versionsRef, file, fileReads,
                 metaReqs>>
  /\ UNCHANGED <<svars, fvars, pvars, ivars>>

\* await Promise.all(requests) settles for view v: the entries are stored in
\* versionData and save() stringifies this.#versions and issues the write
FetchDone(v, ok) ==
  /\ views[v].pc = "fetch"
  /\ ~Microtask
  /\ IF ok
     THEN LET versions == [i \in DOMAIN views[v].filtered |-> Metadata(views[v].filtered[i])]
              h == [heap EXCEPT ![views[v].obj] = Store(@, versions)]
          IN /\ heap' = h
             /\ views' = [views EXCEPT ![v].pc = "save", ![v].filtered = <<>>,
                                       ![v].content = h[versionsRef]]
     ELSE /\ views' = [views EXCEPT ![v] = Settled(@, "failed")]
          /\ UNCHANGED heap
  /\ UNCHANGED <<manifestP, manifestReqs, manifestDoc, versionsRef, file, fileReads,
                 metaReqs>>
  /\ UNCHANGED <<svars, fvars, pvars, ivars>>

\* await this.save() settles for view v, then return this.#versions
SaveDone(v, ok) ==
  /\ views[v].pc = "save"
  /\ ~Microtask
  /\ IF ok
     THEN /\ file' = [exists |-> TRUE, map |-> views[v].content]
          /\ views' = [views EXCEPT ![v] = Return(@, versionsRef, heap)]
     ELSE /\ views' = [views EXCEPT ![v] = Settled(@, "failed")]
          /\ UNCHANGED file
  /\ UNCHANGED <<manifestP, manifestReqs, manifestDoc, versionsRef, heap, fileReads,
                 metaReqs>>
  /\ UNCHANGED <<svars, fvars, pvars, ivars>>

\* the fact maps a cache file can hold for a manifest: entries of some of
\* its versions, as an earlier run stored them
StoredMaps(manifest) ==
  {[id \in ids |-> Facts(Metadata(id))] : ids \in SUBSET Range(manifest)}

\* a process that has loaded Versions, with or without ./versions.json
VersionsInit ==
  /\ Constructed
  /\ observed = [on |-> FALSE, seq |-> <<>>]
  /\ eulaTxt = "absent"
  /\ propFile = DefaultFile
  /\ InstallUnused
  /\ VersionsFresh
  /\ manifestDoc \in Manifests
  /\ file \in {NoFile} \cup {[exists |-> TRUE, map |-> m] : m \in StoredMaps(manifestDoc)}

VersionsNext ==
  \/ AccessManifest
  \/ \E kind \in Kinds : RequestView(kind)
  \/ \E ok \in BOOLEAN : ManifestSettles(ok)
  \/ \E v \in DOMAIN views : ViewManifest(v)
  \/ \E v \in DOMAIN views, ok \in BOOLEAN : LoadDone(v, ok)
  \/ \E v \in DOMAIN views, ok \in BOOLEAN : FetchDone(v, ok)
  \/ \E v \in DOMAIN views, ok \in BOOLEAN : SaveDone(v, ok)

VersionsSpec == VersionsInit /\ [][VersionsNext]_vars

\* ---- versions.ts: Versions.fabricManifest ------------------------------------------
\* the lists of the document served at meta.fabricmc.net/v2/versions
FabricLists == {"game", "mappings", "intermediary", "installer", "loader"}

\* the stable flags of a list of up to n entries, newest first
FabricListsUpTo(n) ==
  UNION {[1..k -> BOOLEAN] : k \in 0..n}

\* the versions of the entries of a list, newest first
FabricNames == <<"f1", "f2", "f3", "f4">>

\* the list with these flags: every entry has a version of its own
FabricList(flags) ==
  [i \in DOMAIN flags |-> [version |-> FabricNames[i], stable |-> flags[i]]]

\* the documents the service can serve, by the stable flags of their lists
FabricFlags == [FabricLists -> FabricListsUpTo(MaxEntries)]

FabricDoc(flags) == [l \in FabricLists |-> FabricList(flags[l])]

\* a latest that takes the newest entry whatever its flag
FirstEntry(list) ==
  IF list = <<>> THEN "" ELSE list[1].version

\* list.filter(v => v.stable)[0]?.version || ''
FirstStable(list) ==
  LET filtered == SelectSeq(list, LAMBDA v : v.stable)
  IN IF filtered = <<>> THEN "" ELSE filtered[1].version

\* the .then() callback of the request: the manifest built from the document
FabricManifest(versions) ==
  [latest |-> [release |-> [game |-> FirstStable(versions.game),
                            mapping |-> FirstStable(versions.mappings),
                            intermediary |-> FirstStable(versions.intermediary),
                            installer |-> FirstStable(versions.installer),
                            loader |-> FirstStable(versions.loader)]],
   versions |-> versions]

\* static get fabricManifest(): the promise after the access
FabricGetter ==
  IF fabricP.st = "unset" THEN [st |-> "pending", value |-> "-"] ELSE fabricP

\* an access to Versions.fabricManifest by a caller
AccessFabricManifest ==
  /\ fabricP' = FabricGetter
  /\ UNCHANGED <<svars, vvars, pvars, ivars>>
  /\ UNCHANGED spigotP

\* the request for the Fabric document settles: it fails, or the callback
\* builds the manifest from the document that arrived
FabricSettles(ok, versions) ==
  /\ fabricP.st = "pending"
  /\ fabricP' = IF ok THEN [st |-> "resolved", value |-> FabricManifest(versions)]
                ELSE [st |-> "rejected", value |-> "-"]
  /\ UNCHANGED <<svars, vvars, pvars, ivars>>
  /\ UNCHANGED spigotP

\* a process that has loaded Versions
FabricInit ==
  /\ Constructed
  /\ observed = [on |-> FALSE, seq |-> <<>>]
  /\ eulaTxt = "absent"
  /\ propFile = DefaultFile
  /\ InstallUnused
  /\ VersionsUnused

FabricNext ==
  \/ AccessFabricManifest
  \/ fabricP.st = "pending" /\ \E ok \in BOOLEAN, flags \in FabricFlags : FabricSettles(ok, FabricDoc(flags))

FabricSpec == FabricInit /\ [][FabricNext]_vars

\* ---- properties.ts: the calls on the store ---------------------------------------
\* the names and values a caller passes to setProperty and setProperties
InputPairs == [name : {<<"k">>, <<"k", "k">>}, value : {<<>>, <<"v">>}]

Inputs == SeqsUpTo(InputPairs, MaxPairs)

\* a step of the store: the supervisor emits nothing and keeps its state
StoreStep ==
  /\ Free
  /\ Apply(Sv)
  /\ UNCHANGED <<eulaTxt, eulaPc, eulaRet>>
  /\ UNCHANGED <<process, child, stdin, startPc, startRet, call, chunks, quitPc, spins>>

\* how a call on the store settled
PropSettled(op, ok) ==
  [op |-> op, status |-> IF ok THEN "ok" ELSE "error", existed |-> propFile.exists]

\* loadProperties() up to await readFile(this.path, 'utf-8')
CallLoadProperties ==
  /\ propOp.pc = "idle"
  /\ propOp' = [PropIdle EXCEPT !.pc = "load"]
  /\ propRet' = [NoPropRet EXCEPT !.op = "load", !.status = "pending"]
  /\ UNCHANGED <<propFile, propData, propRead>>
  /\ StoreStep

\* getProperties(): it loads the file when #data is empty and the file exists,
\* and returns the properties of #data
CallGetProperties ==
  /\ propOp.pc = "idle"
  /\ IF propData = <<>> /\ propFile.exists
     THEN /\ propOp' = [PropIdle EXCEPT !.pc = "get"]
          /\ propRet' = [NoPropRet EXCEPT !.op = "get", !.status = "pending"]
     ELSE /\ propOp' = PropIdle
          /\ propRet' = PropSettled("get", TRUE)
  /\ UNCHANGED <<propFile, propData, propRead>>
  /\ StoreStep

\* await readFile(...) of loadProperties settles and the lines are mapped
\* into #data, for a caller of loadProperties or of getProperties
ReadDone ==
  /\ propOp.pc \in {"load", "get"}
  /\ \E ok \in ReadOutcomes :
       /\ propData' = IF ok THEN ParseLines(propFile.lines) ELSE propData
       /\ propRet' = PropSettled(propOp.pc, ok)
  /\ propOp' = PropIdle
  /\ UNCHANGED <<propFile, propRead>>
  /\ StoreStep

\* setProperties(properties) up to await writeFile(this.path, content);
\* setProperty(name, value) is setProperties([{ name, value }])
CallSetProperties(properties) ==
  /\ propOp.pc = "idle"
  /\ propOp' = [pc |-> "set", properties |-> properties,
                newData |-> [i \in DOMAIN propData |-> SetLine(propData[i], properties)]]
  /\ propRet' = [NoPropRet EXCEPT !.op = "set", !.status = "pending"]
  /\ UNCHANGED <<propFile, propData, propRead>>
  /\ StoreStep

\* await writeFile(...) of setProperties settles: this.#data = newData
WriteDone ==
  /\ propOp.pc = "set"
  /\ \E ok \in BOOLEAN :
       /\ propFile' = IF ok THEN PropFile(FormatLines(propOp.newData)) ELSE propFile
       /\ propData' = IF ok THEN propOp.newData ELSE propData
       /\ propRet' = PropSettled("set", ok)
  /\ propOp' = PropIdle
  /\ UNCHANGED propRead
  /\ StoreStep

\* a properties store on an install directory with or without
\* server.properties
PropertiesInit ==
  /\ Constructed
  /\ observed = [on |-> FALSE, seq |-> <<>>]
  /\ eulaTxt = "absent"
  /\ propFile \in Files \cup {NoPropFile}
  /\ InstallUnused
  /\ VersionsUnused

PropertiesNext ==
  \/ CallLoadProperties
  \/ CallGetProperties
  \/ ReadDone
  \/ propOp.pc = "idle" /\ \E properties \in Inputs : CallSetProperties(properties)
  \/ WriteDone

PropertiesSpec == PropertiesInit /\ [][PropertiesNext]_vars

\* ---- the load a ready record triggers ------------------------------------------------
\* a starting supervisor whose first child is alive, on an install directory
\* with or without server.properties
ReadyInit ==
  /\ state = "STARTING"
  /\ process = 1
  /\ child = [c \in Children |-> IF c = 1 THEN "alive" ELSE "unborn"]
  /\ stdin = [c \in Children |-> <<>>]
  /\ events = <<>>
  /\ logs = <<>>
  /\ startPc = "idle"
  /\ startRet = "ok"
  /\ exit = NoExit
  /\ call = [n |-> 1, op |-> "start", arg |-> "-", status |-> "accepted", err |-> NoError]
  /\ chunks = 0
  /\ loads = 0
  /\ quitPc = "idle"
  /\ spins = 0
  /\ data = NoData
  /\ observed = [on |-> FALSE, seq |-> <<>>]
  /\ eulaTxt = "absent"
  /\ eulaPc = EulaIdle
  /\ eulaRet = "none"
  /\ StoreFresh
  /\ ProvisionerFresh
  /\ propFile \in {NoPropFile, DefaultFile}
  /\ InstallUnused
  /\ VersionsUnused

\* the child's output arrives and the loads it triggers settle; a caller
\* loads the store
ReadyNext ==
  \/ \E messages \in Chunks : ChildData(1, messages)
  \/ PropertiesLoaded
  \/ CallLoadProperties
  \/ ReadDone

ReadySpec == ReadyInit /\ [][ReadyNext]_vars

\* a server that is starting on an install directory that holds
\* server.properties: the store is new, or has loaded the file in an earlier run
OverlapInit ==
  /\ state = "STARTING"
  /\ process = 1
  /\ child = [c \in Children |-> IF c = 1 THEN "alive" ELSE "unborn"]
  /\ stdin = [c \in Children |-> <<>>]
  /\ events = <<>>
  /\ logs = <<>>
  /\ startPc = "idle"
  /\ startRet = "ok"
  /\ exit = NoExit
  /\ call = [n |-> 1, op |-> "start", arg |-> "-", status |-> "accepted", err |-> NoError]
  /\ chunks = 0
  /\ loads = 0
  /\ quitPc = "idle"
  /\ spins = 0
  /\ data = NoData
  /\ observed = [on |-> FALSE, seq |-> <<>>]
  /\ eulaTxt = "absent"
  /\ eulaPc = EulaIdle
  /\ eulaRet = "none"
  /\ propFile \in Files
  /\ propData \in {<<>>, ParseLines(propFile.lines)}
  /\ propOp = PropIdle
  /\ propRet = NoPropRet
  /\ propRead = NoRead
  /\ ProvisionerFresh
  /\ InstallUnused
  /\ VersionsUnused

\* the ready record arrives, the load it starts reads the file and settles,
\* and a caller sets properties
OverlapNext ==
  \/ chunks = 0 /\ ChildData(1, <<DoneRecord>>)
  \/ LoadReads
  \/ PropertiesLoaded
  \/ propRet.op = "-" /\ \E properties \in Inputs : CallSetProperties(properties)
  \/ WriteDone

OverlapSpec == OverlapInit /\ [][OverlapNext]_vars

\* ---- constructors: Server, SpigotServer, FabricServer ----------------------------
\* the options a constructor passes to super(version, serverOptions):
\* SpigotServer and FabricServer assign options to a clone of the class's
\* DefaultOptions (FabricServer declares none and inherits Server's)
ServerOptions(class, options) ==
  CASE class = "vanilla" -> options
    [] class = "spigot"  -> ObjectAssign(DeclaredOptions, options)
    [] class = "fabric"  -> ObjectAssign(DefaultOptions, options)

\* new Server(version, options), new SpigotServer(version, options),
\* new FabricServer(version, loader, options): Server's constructor assigns
\* the options to Server.DefaultOptions and reads its fields from the result
Construct(class, given) ==
  /\ Len(servers) < MaxServers
  /\ LET assigned == ObjectAssign(DefaultOptions, ServerOptions(class, Options(given)))
     IN /\ DefaultOptions' = assigned
        /\ servers' = Append(servers, [class |-> class, given |-> given,
                                       fields |-> assigned])
  /\ UNCHANGED <<variant, cfg, jar, infoFile, buildtool, buildjar, prov, downloads, builds>>
  /\ UNCHANGED <<svars, vvars, fvars, pvars>>

\* supervisors are constructed one after another, with any options
ConstructNext ==
  \E class \in Variants, given \in SUBSET OptionKeys : Construct(class, given)

ConstructSpec == Init /\ [][ConstructNext]_vars

\* ---- servers: buildJar, buildServerJar, downloadJar, getVersionInfo ---------------
\* Every action is one run-to-completion step of the call in progress: the
\* call up to its first await, or the continuation of one of its awaits up to
\* the next one.  start() is followed as far as the artifact is concerned.

\* static get spigotManifest(): the promise after the access
SpigotGetter ==
  IF spigotP.st = "unset" THEN [st |-> "pending", value |-> "-"] ELSE spigotP

\* the releases the Spigot version index can list first
SpigotReleases == {id \in Known : TypeOf(id) = "release"}

\* the Fabric documents served while an artifact is provisioned: every list
\* holds MaxEntries entries, all of them stable or none of them
ProvisionDocs ==
  {FabricDoc([l \in FabricLists |-> [i \in 1..MaxEntries |-> b]]) : b \in BOOLEAN}

\* The part of the supervisor and its install directory a step transforms,
\* as the step finds it, and what the step asks of Versions: the view or
\* manifest it accesses and the metadata document it requests (none yet).
Iv == [cfg |-> cfg, jar |-> jar, info |-> infoFile, tool |-> buildtool,
       built |-> buildjar, prov |-> prov, sv |-> Sv, ret |-> startRet,
       downloads |-> downloads, builds |-> builds, access |-> "none", request |-> ""]

\* the step's effect
Put(iv) ==
  /\ cfg' = iv.cfg
  /\ jar' = iv.jar
  /\ infoFile' = iv.info
  /\ buildtool' = iv.tool
  /\ buildjar' = iv.built
  /\ downloads' = iv.downloads
  /\ builds' = iv.builds
  /\ IF iv.access = "servers"
     THEN /\ AccessView("servers")
          /\ prov' = [iv.prov EXCEPT !.view = Len(views) + 1]
     ELSE /\ prov' = iv.prov
          /\ UNCHANGED <<manifestP, manifestReqs, manifestDoc, versionsRef, heap, file,
                         fileReads, views>>
  /\ metaReqs' = IF iv.request = "" THEN metaReqs
                 ELSE [metaReqs EXCEPT ![iv.request] = @ + 1]
  /\ fabricP' = IF iv.access = "fabric" THEN FabricGetter ELSE fabricP
  /\ spigotP' = IF iv.access = "spigot" THEN SpigotGetter ELSE spigotP
  /\ UNCHANGED <<variant, DefaultOptions, servers>>
  /\ Effect(iv.sv)
  /\ startRet' = iv.ret
  /\ UNCHANGED <<process, child, stdin, startPc, call, chunks, quitPc, spins,
                 eulaTxt, eulaPc, eulaRet>>
  /\ UNCHANGED pvars

\* the call returns result
Done(iv, result) == [iv EXCEPT !.prov.pc = "done", !.prov.result = result]

\* the step of the call in progress belongs to the validateVersion() of start()
Validating(iv) ==
  iv.prov.gvi = "validate" /\ iv.prov.pc \in {"gvi-view", "gvi-exec", "gvi-write", "gvi-read"}

\* a throw that leaves the state of a starting supervisor as it is
ThrowQuiet(iv, err) ==
  [iv EXCEPT !.prov.pc = "failed", !.prov.error = err,
             !.sv = IF iv.prov.op = "start" THEN error(@, err) ELSE @,
             !.ret = IF iv.prov.op = "start" THEN "error" ELSE @]

\* the call throws err.  In start() a throw of the provisioner is caught
\* first by catch (err) { this.state = 'CRASHED'; throw err }, and every
\* throw by catch (err) { this.error(err.message); throw err }
Throw(iv, err) ==
  LET starting == iv.prov.op = "start"
      crashed == IF starting /\ ~Validating(iv) THEN SetState(iv.sv, "CRASHED") ELSE iv.sv
  IN [iv EXCEPT !.prov.pc = "failed", !.prov.error = err,
                !.sv = IF starting THEN error(crashed, err) ELSE crashed,
                !.ret = IF starting THEN "error" ELSE @]

\* a promise the call awaits is rejected
Fail(iv) == Throw(iv, "rejected")

\* await <promise>: the call is suspended at pc
Await(iv, pc) == [iv EXCEPT !.prov.pc = pc]

\* download(url, ...) is called and awaited at pc
Download(iv, url, pc) == [Await(iv, pc) EXCEPT !.downloads = Append(@, url)]

\* a provisioner returns: to its caller, or to start(), which goes on to
\* spawn the child
ProvReturn(iv) == Done(iv, IF iv.prov.op = "start" THEN "spawn" ELSE "-")

\* a buildJar without the test for the jar
BuildJarAlways(iv, force) ==
  [Await(iv, "bj-view") EXCEPT !.access = "servers"]

\* Server.buildJar(force) up to await Versions.servers
BuildJar(iv, force) ==
  IF iv.jar.exists /\ ~force THEN ProvReturn(iv)
  ELSE [Await(iv, "bj-view") EXCEPT !.access = "servers"]

\* FabricServer.downloadJar(force) up to await Versions.fabricManifest
DownloadJar(iv, force) ==
  IF iv.jar.exists /\ ~force THEN ProvReturn(iv)
  ELSE [Await(iv, "f-manifest") EXCEPT !.access = "fabric"]

\* SpigotServer.buildServerJar(force) up to await Versions.spigotManifest
BuildServerJar(iv, force) ==
  IF iv.jar.exists /\ ~force THEN ProvReturn(iv)
  ELSE [Await(iv, "s-manifest") EXCEPT !.access = "spigot"]

\* what SpigotServer.start() does when the version is not the installed one,
\* up to its first await: BuildTools.jar is downloaded unless an earlier
\* build has left its jar in the build directory, then the server jar is built
SpigotStartBuild(iv) ==
  IF ~iv.built
  THEN Download([iv EXCEPT !.sv = log(@, "Downloading build tools...")],
                Url("buildtools", "", "", ""), "ss-tool")
  ELSE BuildServerJar([iv EXCEPT !.sv = log(@, "Building server jar...")], TRUE)

\* what start() calls when the version is not the installed one:
\* SpigotServer.start() builds, Server.start(), which FabricServer inherits,
\* calls this.buildJar(true, ...), which FabricServer does not override
StartProvisioner(iv) ==
  IF variant = "spigot" THEN SpigotStartBuild(iv)
  ELSE BuildJar([iv EXCEPT !.sv = log(@, "Downloading server jar...")], TRUE)

\* validateVersion() has its answer: it returns to its caller, or start()
\* goes on
Validated(iv, isCorrectVersion) ==
  IF iv.prov.op # "start" THEN Done(iv, IF isCorrectVersion THEN "true" ELSE "false")
  ELSE IF isCorrectVersion THEN Done(iv, "spawn")
  ELSE StartProvisioner(iv)

\* getVersionInfo returns an info with this id, or undefined
GviReturn(iv, id) ==
  IF iv.prov.gvi = "built" THEN ProvReturn(iv)
  ELSE Validated(iv, iv.cfg.version = id)

\* getVersionInfo(force) from if (!existsSync(jar)) to its next await
GviJar(iv) ==
  IF ~iv.jar.exists THEN GviReturn(iv, Undefined)
  ELSE IF ~iv.info.exists \/ iv.prov.gforce THEN Await(iv, "gvi-exec")
  ELSE Await(iv, "gvi-read")

\* getVersionInfo(force) up to its first await; then is what its caller does
\* with the result: "validate" for validateVersion, "built" for a provisioner
GetVersionInfo(iv, force, then) ==
  LET called == [iv EXCEPT !.prov.gvi = then, !.prov.gforce = force]
  IN IF iv.cfg.version = ""
     THEN [Await(called, "gvi-view") EXCEPT !.access = "servers"]
     ELSE GviJar(called)

\* a call may start when none is in progress
ProvFree == prov.pc \in {"idle", "done", "failed"} /\ prov.n < MaxOps

\* the call's record, and the effects of the call before it forgotten
NewOp(op, force) ==
  [Iv EXCEPT !.prov = [ProvIdle EXCEPT !.n = prov.n + 1, !.op = op, !.force = force],
             !.downloads = <<>>, !.builds = 0]

\* the provisioners of each class
Provisioners ==
  CASE variant = "spigot" -> {"buildJar", "buildServerJar"}
    [] variant = "fabric" -> {"buildJar", "downloadJar"}
    [] OTHER -> {"buildJar"}

\* a caller calls a provisioner
CallProvisioner(op, force) ==
  /\ ProvFree
  /\ op \in Provisioners
  /\ Put(CASE op = "buildJar" -> BuildJar(NewOp(op, force), force)
           [] op = "downloadJar" -> DownloadJar(NewOp(op, force), force)
           [] op = "buildServerJar" -> BuildServerJar(NewOp(op, force), force))

\* a caller calls validateVersion()
CallValidateVersion ==
  /\ ProvFree
  /\ Put(GetVersionInfo(NewOp("validateVersion", FALSE), FALSE, "validate"))

\* start() on an install directory that exists, from the call to the first
\* await of validateVersion()
StartValidates ==
  /\ ProvFree
  /\ IF ~canStart(state)
     THEN Put([NewOp("start", TRUE) EXCEPT !.prov.pc = "failed",
                                           !.prov.error = "ServerStateError",
                                           !.sv = error(@, IllegalAction(state)),
                                           !.ret = "error"])
     ELSE Put(GetVersionInfo(
                [NewOp("start", TRUE) EXCEPT
                   !.sv = log(SetState(@, "STARTING"), "Attempting to start server..."),
                   !.ret = "pending"],
                FALSE, "validate"))

\* await Versions.servers settles in getVersionInfo or in buildJar
ViewSettled ==
  /\ prov.pc \in {"gvi-view", "bj-view"}
  /\ views[prov.view].pc \in {"done", "failed"}
  /\ LET manifest == views[prov.view].result
         version == IF cfg.version = "" THEN manifest.latest.release ELSE cfg.version
         iv == [Iv EXCEPT !.cfg.version = version]
     IN IF views[prov.view].pc = "failed" THEN Put(Fail(Iv))
        ELSE IF prov.pc = "gvi-view" THEN Put(GviJar(iv))
        ELSE IF version \notin Range(manifest.versions)
             THEN Put(Throw(iv, "Unable to find version info."))
        ELSE Put([Await(iv, "bj-meta") EXCEPT !.request = version])

\* await request<IVersion>(versionInfo.url) settles in buildJar
MetaDone(ok) ==
  /\ prov.pc = "bj-meta"
  /\ IF ~ok THEN Put(Fail(Iv))
     ELSE IF "server" \notin Metadata(cfg.version).downloads
     THEN Put(Throw(Iv, "The version provided doesn't have a server jar"))
     ELSE Put(Download(Iv, Url("vanilla", cfg.version, "", ""), "bj-dl"))

\* await Versions.fabricManifest settles in downloadJar
FabricManifestSettled ==
  /\ prov.pc = "f-manifest"
  /\ fabricP.st \in {"resolved", "rejected"}
  /\ IF fabricP.st = "rejected" THEN Put(Fail(Iv))
     ELSE LET latest == fabricP.value.latest.release
              version == IF cfg.version = "" THEN latest.game ELSE cfg.version
              loader == IF cfg.loader = "" THEN latest.loader ELSE cfg.loader
              installer == IF cfg.useLatestInstaller \/ cfg.installer = ""
                           THEN latest.installer ELSE cfg.installer
              iv == [Iv EXCEPT !.cfg.version = version, !.cfg.loader = loader,
                               !.cfg.installer = installer]
          IN Put(Download(iv, Url("fabric", version, loader, installer), "f-dl"))

\* await Versions.spigotManifest settles in buildServerJar
SpigotManifestSettled ==
  /\ prov.pc = "s-manifest"
  /\ spigotP.st \in {"resolved", "rejected"}
  /\ IF spigotP.st = "rejected" THEN Put(Fail(Iv))
     ELSE LET version == IF cfg.version = "" THEN spigotP.value ELSE cfg.version
              iv == [Iv EXCEPT !.cfg.version = version]
          IN IF ~buildtool \/ prov.force
             THEN Put(Download(iv, Url("buildtools", "", "", ""), "s-tool"))
             ELSE Put([Await(iv, "s-build") EXCEPT !.builds = @ + 1])

\* the request for the Spigot version index settles
SpigotSettles(ok, latest) ==
  /\ spigotP.st = "pending"
  /\ spigotP' = IF ok THEN [st |-> "resolved", value |-> latest]
                ELSE [st |-> "rejected", value |-> "-"]
  /\ UNCHANGED fabricP
  /\ UNCHANGED <<svars, vvars, pvars, ivars>>

\* await download(...) settles; on an error download() unlinks its target
DownloadDone(ok, hasInfo) ==
  /\ prov.pc \in {"bj-dl", "f-dl", "s-tool", "ss-tool"}
  /\ CASE prov.pc = "bj-dl" ->
            IF ok THEN Put(GetVersionInfo([Iv EXCEPT !.jar = Jar("vanilla", cfg.version, hasInfo)],
                                          TRUE, "built"))
            ELSE Put(Fail([Iv EXCEPT !.jar = NoJar]))
       [] prov.pc = "f-dl" ->
            IF ok THEN Put(GetVersionInfo([Iv EXCEPT !.jar = Jar("fabric", cfg.version, hasInfo)],
                                          TRUE, "built"))
            ELSE Put(Fail([Iv EXCEPT !.jar = NoJar]))
       [] prov.pc = "s-tool" ->
            IF ok THEN Put([Await(Iv, "s-build") EXCEPT !.tool = TRUE, !.builds = @ + 1])
            ELSE Put(Fail([Iv EXCEPT !.tool = FALSE]))
       [] prov.pc = "ss-tool" ->
            IF ok THEN Put(BuildServerJar([Iv EXCEPT !.tool = TRUE,
                                                     !.sv = log(@, "Building server jar...")],
                                          TRUE))
            ELSE Put(Fail([Iv EXCEPT !.tool = FALSE]))

\* await buildPromise settles: the build process failed to launch or exited
BuildDone(outcome) ==
  /\ prov.pc = "s-build"
  /\ IF outcome = "0" THEN Put([Await(Iv, "s-rename") EXCEPT !.built = TRUE])
     ELSE Put(Fail(Iv))

\* await rename(buildjar, jar) settles and buildServerJar returns
RenameDone(ok, hasInfo) ==
  /\ prov.pc = "s-rename"
  /\ IF ok THEN Put(ProvReturn([Iv EXCEPT !.jar = Jar("spigot", cfg.version, hasInfo),
                                         !.built = FALSE]))
     ELSE Put(Fail(Iv))

\* await exec('jar -xvf server.jar version.json') settles: jar lists the file
\* it has extracted into the install directory, or nothing
ExecDone(ok) ==
  /\ prov.pc = "gvi-exec"
  /\ IF ~ok THEN Put(Fail(Iv))
     ELSE IF jar.hasInfo THEN Put([Await(Iv, "gvi-read") EXCEPT !.info = Info(jar.id)])
     ELSE Put(Await(Iv, "gvi-write"))

\* await writeFile(info, ...) settles: return versionInfo
WriteInfoDone(ok) ==
  /\ prov.pc = "gvi-write"
  /\ IF ok THEN Put(GviReturn([Iv EXCEPT !.info = Info(cfg.version)], cfg.version))
     ELSE Put(Fail(Iv))

\* await readFile(info) settles: JSON.parse and return data
ReadInfoDone(ok) ==
  /\ prov.pc = "gvi-read"
  /\ IF ok THEN Put(GviReturn(Iv, infoFile.id)) ELSE Put(Fail(Iv))

\* the versions a supervisor is constructed with ("" for none) and an
\* artifact on disk can be
Configured == {"", "r0", "r1", "s1"}

Installed == {"r1", "s1"}

\* a supervisor of any class in a process that has loaded Versions; the
\* install directory may hold the artifact and the identity file of an
\* earlier run
ProvisionInit ==
  /\ Constructed
  /\ observed = [on |-> FALSE, seq |-> <<>>]
  /\ eulaTxt = "absent"
  /\ propFile = DefaultFile
  /\ VersionsFresh
  /\ manifestDoc \in {m \in Manifests : Len(m) = MaxVersions}
  /\ file = NoFile
  /\ variant \in Variants
  /\ cfg \in [version : Configured, loader : {""}, installer : {""},
              useLatestInstaller : {TRUE}]
  /\ jar \in {NoJar} \cup {Jar(variant, id, hasInfo) : id \in Installed, hasInfo \in BOOLEAN}
  /\ infoFile \in {NoInfo} \cup {Info(id) : id \in Installed}
  /\ buildtool \in (IF variant = "spigot" THEN BOOLEAN ELSE {FALSE})
  /\ buildjar \in (IF variant = "spigot" THEN BOOLEAN ELSE {FALSE})
  /\ ClassesLoaded

ProvisionNext ==
  \/ \E op \in {"buildJar", "buildServerJar", "downloadJar"}, force \in BOOLEAN :
       CallProvisioner(op, force)
  \/ CallValidateVersion
  \/ StartValidates
  \/ ViewSettled
  \/ \E ok \in BOOLEAN : MetaDone(ok)
  \/ FabricManifestSettled
  \/ SpigotManifestSettled
  \/ \E ok \in BOOLEAN, hasInfo \in BOOLEAN : DownloadDone(ok, hasInfo)
  \/ \E outcome \in ExitCodes \cup {"error"} : BuildDone(outcome)
  \/ \E ok \in BOOLEAN, hasInfo \in BOOLEAN : RenameDone(ok, hasInfo)
  \/ \E ok \in BOOLEAN : ExecDone(ok)
  \/ \E ok \in BOOLEAN : WriteInfoDone(ok)
  \/ \E ok \in BOOLEAN : ReadInfoDone(ok)
  \/ \E ok \in BOOLEAN : ManifestSettles(ok)
  \/ \E v \in DOMAIN views : ViewManifest(v)
  \/ \E v \in DOMAIN views, ok \in BOOLEAN : LoadDone(v, ok)
  \/ \E v \in DOMAIN views, ok \in BOOLEAN : FetchDone(v, ok)
  \/ \E v \in DOMAIN views, ok \in BOOLEAN : SaveDone(v, ok)
  \/ fabricP.st = "pending" /\ \E ok \in BOOLEAN, versions \in ProvisionDocs : FabricSettles(ok, versions)
  \/ \E ok \in BOOLEAN, latest \in SpigotReleases : SpigotSettles(ok, latest)

ProvisionSpec == ProvisionInit /\ [][ProvisionNext]_vars

\* ---- properties of the supervisor ------------------------------------------
\* this step is a caller's invocation of one of ops
Invoked(ops) == call'.n # call.n /\ call'.op \in ops

\* this step runs the 'error' handler of a child that failed to launch
LaunchFailed == \E c \in Children : child[c] = "failing" /\ child'[c] = "failed"

\* C1: start() is accepted only in Stopped or Crashed and then sets the state
\* to Starting before its first suspension point; in Starting, Running or
\* Stopping it fails with ServerStateError, leaves the state unchanged, emits
\* no stateUpdate and spawns no child process.
StartGate ==
  [][Invoked({"start"}) =>
       IF state \in {"STOPPED", "CRASHED"}
       THEN call'.status = "accepted" /\ state' = "STARTING"
       ELSE /\ call'.status = "rejected"
            /\ call'.err.name = "ServerStateError"
            /\ state' = state
            /\ StateUpdates(events') = <<>>
            /\ child' = child
            /\ process' = process]_vars

\* a second start() was rejected while the accepted one is still suspended
SecondStartRejected ==
  /\ call.op = "start" /\ call.status = "rejected"
  /\ call.err = ServerStateError("STARTING")
  /\ startPc # "idle" /\ startRet = "pending"

\* C2: execute(command) and stop() succeed iff the state is Running; in every
\* other state S they fail with an error naming S, write nothing to the
\* child's stdin and leave the state unchanged.
SendGate ==
  [][Invoked({"execute", "stop"}) =>
       IF state = "RUNNING"
       THEN call'.status = "accepted" /\ call'.err = NoError
       ELSE /\ call'.status = "rejected"
            /\ call'.err.named = state
            /\ stdin' = stdin
            /\ state' = state]_vars

\* stop() was rejected in Stopping after an earlier command had been written
StopRejectedInStopping ==
  /\ call.op = "stop" /\ call.status = "rejected"
  /\ call.err.named = "STOPPING" /\ state = "STOPPING"
  /\ \E c \in Children : stdin[c] # <<>>

\* C3: whenever an accepted start() fails, the state is Crashed at the moment
\* the failure is delivered to the caller.
FailedStartIsCrashed ==
  [][startRet = "pending" /\ startRet' = "error" => state' = "CRASHED"]_vars

\* C4: when the child process fails to launch, the state becomes Crashed and
\* the start() call that spawned it fails.
LaunchFailureFailsStart ==
  [][LaunchFailed => state' = "CRASHED" /\ startRet' = "error"]_vars

\* C5: when the child process exits, the state becomes Stopped if the exit
\* code is 0 and Crashed if it is non-zero or the process was killed by a
\* signal, and the stored process handle is cleared.
ExitDecidesState ==
  [][exit' # NoExit =>
       /\ exit'.code = "0" => state' = "STOPPED"
       /\ exit'.code \in {"1", "null"} => state' = "CRASHED"
       /\ process' = 0]_vars

\* a child killed by a signal has just been handled
KilledChildHandled ==
  /\ exit.code = "null" /\ child[exit.child] = "exited"
  /\ state = "CRASHED" /\ process = 0

\* C6 as stated: an exit handled in Running makes the state Crashed, whatever
\* the exit code.
ExitInRunningCrashes ==
  [][exit' # NoExit /\ state = "RUNNING" => state' = "CRASHED"]_vars

\* C6 as amended: an exit handled in Running makes the state Crashed when the
\* code is non-zero or null and Stopped when the code is 0.
ExitInRunningByCode ==
  [][exit' # NoExit /\ state = "RUNNING" =>
       state' = IF exit'.code = "0" THEN "STOPPED" ELSE "CRASHED"]_vars

\* a child has just exited with code 0 while the state was Running
CleanExitInRunning ==
  exit.at = "RUNNING" /\ exit.code = "0" /\ state = "STOPPED"

\* C7: every transition into Running starts from Starting; a ready record
\* received in Running, Stopping, Stopped or Crashed does not move the state
\* to Running.
RunningOnlyFromStarting ==
  [][state' = "RUNNING" /\ state # "RUNNING" => state = "STARTING"]_vars

\* C8: an accepted stop() or execute(cmd) writes the command text followed by
\* one line terminator to the child's stdin and neither changes the state nor
\* emits stateUpdate.
AcceptedSendWrites ==
  [][Invoked({"execute", "stop"}) /\ call'.status = "accepted" =>
       /\ \E c \in Children :
            /\ child[c] = "alive"
            /\ stdin' = [stdin EXCEPT
                 ![c] = @ \o <<IF call'.op = "stop" THEN "stop" ELSE call'.arg, EOL>>]
       /\ state' = state
       /\ StateUpdates(events') = <<>>]_vars

\* C9: quit() called in Starting or Stopping eventually completes: once it
\* is inside its loop it eventually leaves it.
QuitCompletes == (quitPc = "spin") ~> (quitPc = "idle")

\* the states a step goes through: the state it starts in, then every state
\* a stateUpdate of the step carries
Passage == <<state>> \o StateUpdates(events')

\* C10 as stated: no stateUpdate is emitted when the state value does not
\* change.
NoRepeatedStateUpdate ==
  [][\A i \in 1..(Len(Passage) - 1) : Passage[i] # Passage[i + 1]]_vars

\* C10 as amended: every change of the state emits a stateUpdate, each
\* stateUpdate carries the value the state field holds when it is emitted
\* (the last one of a step the state the step ends in), and a step that emits
\* none leaves the state unchanged; an assignment of the current value emits a
\* stateUpdate as well.
StateUpdateCarriesState ==
  [][state' = Passage[Len(Passage)]]_vars

\* a step has emitted two stateUpdate events in a row with the same state
RepeatedStateUpdate ==
  \E i \in 1..(Len(StateUpdates(events)) - 1) :
     StateUpdates(events)[i] = StateUpdates(events)[i + 1]

\* the positions in evs of the events evs holds that satisfy Test
Positions(evs, Test(_)) == {j \in DOMAIN evs : Test(evs[j])}

\* the records of the 'data' event of the latest step that match EulaPattern
EulaRecords == {i \in DOMAIN data.messages : EulaPattern(data.messages[i])}

\* C11: each needs-EULA record moves the state to Stopping and emits the eula
\* event exactly once, the stateUpdate(Stopping) being delivered before the
\* eula event; no eula event is emitted for any other record.
EulaOncePerRecord ==
  LET eulas == Positions(events, LAMBDA e : e = EulaEvent)
  IN /\ Cardinality(eulas) = Cardinality(EulaRecords)
     /\ \A j \in eulas : j > 1 /\ events[j - 1] = StateUpdateEvent("STOPPING")
     /\ data.messages # <<>> /\ EulaPattern(data.messages[Len(data.messages)])
          => state = "STOPPING" /\ events[Len(events)] = EulaEvent

\* a chunk of an EULA record followed by an ordinary record has been handled
EulaSignalled ==
  /\ Len(data.messages) = 2
  /\ EulaPattern(data.messages[1]) /\ data.messages[2].key = "none"
  /\ EulaEvent \in {events[j] : j \in DOMAIN events}
  /\ state = "STOPPING"

\* the message events among evs, as log entries
Messages(evs) ==
  LET ms == SelectSeq(evs, LAMBDA e : e.ev = "message")
  IN [i \in 1..Len(ms) |-> [type |-> ms[i].type, content |-> ms[i].arg]]

\* the contents a record of child output can have
RecordContents == {Content(m) : m \in AllRecords}

\* the positions in evs of the messages that carry a record, in order
Carried(evs) ==
  SelectSeq([j \in 1..Len(evs) |-> j],
            LAMBDA j : evs[j].ev = "message" /\ evs[j].arg \in RecordContents)

\* C15: message events are delivered in FIFO order: the records of a chunk in
\* their order within the chunk, one chunk per 'data' event, the message of a
\* record before any stateUpdate or eula event the record causes, and the
\* log list receives the same entries in the same order as the message
\* events.
MessagesFifo ==
  LET at == Carried(events)
      n == Len(data.messages)
      \* the record whose message is the last one at or before position j
      Cause(j) == Cardinality({i \in DOMAIN at : at[i] <= j})
  IN /\ logs = Messages(events)
     /\ data # NoData =>
          /\ Len(at) = n
          /\ \A i \in 1..n : events[at[i]].arg = Content(data.messages[i])
          /\ \A j \in DOMAIN events :
               events[j].ev \in {"stateUpdate", "eula"} =>
                 Cause(j) >= 1 /\ data.messages[Cause(j)].key # "none"
          /\ \A i \in 1..n :
               data.messages[i].key # "none" =>
                 \E j \in DOMAIN events : events[j].ev = "stateUpdate" /\ Cause(j) = i

\* a chunk of two key records has been handled, each with its state change
TwoKeyRecordsHandled ==
  /\ Len(data.messages) = 2
  /\ DonePattern(data.messages[1]) /\ StopPattern(data.messages[2])
  /\ StateUpdates(events) = <<"RUNNING", "STOPPING">>
  /\ Len(logs) = 5

\* this step runs a handler of child c ('error', stdout 'data' or 'exit')
HandlerOf(c) ==
  \/ exit'.child = c
  \/ data'.child = c
  \/ child[c] = "failing" /\ child'[c] = "failed"

\* C16: at most one child is live at any time: a start() is never accepted
\* while a previously spawned child is alive, and no late event of an earlier
\* child clears the handle or resets the state of a later one.
SingleLiveChild ==
  [][/\ Invoked({"start"}) /\ call'.status = "accepted" =>
          \A c \in Children : child[c] # "alive"
     /\ \A c \in Children :
          HandlerOf(c) /\ process \notin {0, c} =>
            process' = process /\ state' = state]_vars

\* C14: every record of child output produces exactly one message, whose
\* severity is Warn if the record contains "/WARN]", otherwise Error if it
\* contains "/ERROR]", otherwise Info; a record containing both markers is
\* Warn.
OneMessagePerRecord ==
  LET carried == SelectSeq(Messages(events),
                           LAMBDA l : l.content \in {Content(m) : m \in AllRecords})
  IN carried = [i \in 1..Len(data.messages) |->
                  [type |-> IF data.messages[i].warn THEN "WARN"
                            ELSE IF data.messages[i].error THEN "ERROR"
                            ELSE "INFO",
                   content |-> Content(data.messages[i])]]

\* a record with both markers has been reported as a warning, after a record
\* with the error marker only
BothMarkersWarned ==
  /\ Len(data.messages) = 2
  /\ ~data.messages[1].warn /\ data.messages[1].error
  /\ data.messages[2].warn /\ data.messages[2].error
  /\ Messages(events)[1].type = "ERROR"
  /\ Messages(events)[Len(logs)].type = "WARN"

\* the run of start(), a Done record, stop() and an exit with code 0 is over
ScenarioDone == StopAccepted /\ exit.child = 1 /\ exit.code = "0"

AcceptEulaOnlyWrites ==
  [][eulaPc' # eulaPc =>
       /\ state' = state /\ events' = <<>>
       /\ process' = process /\ child' = child
       /\ startPc' = startPc /\ startRet' = startRet
       /\ eulaRet' \in {"true", "false"} =>
            /\ eulaRet' = (IF eulaPc.accept THEN "true" ELSE "false")
            /\ eulaTxt' = (IF eulaPc.accept THEN "eula=true" ELSE "eula=false")
       /\ eulaRet' \notin {"true", "false"} => eulaTxt' = eulaTxt]_vars

\* acceptEula(false) has returned false after the child that asked for the
\* EULA has exited, and eula.txt says eula=false
EulaDeclined ==
  /\ call.op = "acceptEula" /\ eulaRet = "false" /\ eulaTxt = "eula=false"
  /\ child[1] = "exited" /\ state = "STOPPED" /\ process = 0

\* ---- properties of Versions -------------------------------------------------------
\* C17: over any number and interleaving of accesses to Versions.manifest and
\* to the views, the manifest URL is requested at most once, and every caller
\* receives the result of that single request.
ManifestRequestedOnce ==
  /\ manifestReqs <= 1
  /\ manifestP.st # "unset" => manifestP.by = 1
  /\ \A v \in DOMAIN views : views[v].pc # "manifest" => views[v].got = 1

\* two views have completed on one request of the manifest
TwoViewsOneRequest ==
  /\ Len(views) = 2
  /\ views[1].pc = "done" /\ views[2].pc = "done"
  /\ views[1].kind # views[2].kind
  /\ manifestReqs = 1

\* C18: ./versions.json is read at most once per process lifetime, also when
\* two or more views are requested before the first load has completed.
FileReadOnce == fileReads <= 1

\* the fact map Versions.#versions refers to, before and after a step
Cached == IF versionsRef = 0 THEN EmptyMap ELSE heap[versionsRef]

CachedAfter == IF versionsRef' = 0 THEN EmptyMap ELSE heap'[versionsRef']

\* C19: artifact facts are append-only: once facts for a version id are in the
\* cache, no later getVersionData call requests that id's metadata again or
\* changes or removes its entry, and every rewrite of the cache file contains
\* all entries the file held before.
FactsAppendOnly ==
  [][/\ \A id \in DOMAIN Cached :
          /\ metaReqs'[id] = metaReqs[id]
          /\ id \in DOMAIN CachedAfter /\ CachedAfter[id] = Cached[id]
     /\ \A id \in DOMAIN file.map :
          id \in DOMAIN file'.map /\ file'.map[id] = file.map[id]]_vars

\* the position of id in the manifest
ManifestIndex(id) == CHOOSE i \in DOMAIN manifestDoc : manifestDoc[i] = id

\* the first version of type among versions, '' when there is none
FirstOfType(versions, type) ==
  IF \E i \in DOMAIN versions : TypeOf(versions[i]) = type
  THEN versions[CHOOSE i \in DOMAIN versions :
                  /\ TypeOf(versions[i]) = type
                  /\ \A j \in 1..(i - 1) : TypeOf(versions[j]) # type]
  ELSE ""

ListOf(field) == IF field = "mapping" THEN "mappings" ELSE field

\* C21: every field of latest.release of the Fabric manifest is the version of
\* the first entry of its list whose stable flag is true, and the empty string
\* when the list has no stable entry; the manifest is built whatever the flags
LatestIsFirstStable ==
  fabricP.st = "resolved" =>
    \A field \in {"game", "mapping", "intermediary", "installer", "loader"} :
      LET list == fabricP.value.versions[ListOf(field)]
          latest == fabricP.value.latest.release[field]
      IN IF \E i \in DOMAIN list : list[i].stable
         THEN \E i \in DOMAIN list :
                 /\ list[i].stable
                 /\ \A j \in 1..(i - 1) : ~list[j].stable
                 /\ latest = list[i].version
         ELSE latest = ""

\* the manifest of a document whose loader list has no stable entry and whose
\* game list has a stable entry after an unstable one
LatestSkipsUnstable ==
  /\ fabricP.st = "resolved"
  /\ LET versions == fabricP.value.versions
     IN /\ Len(versions.loader) > 0
        /\ \A i \in DOMAIN versions.loader : ~versions.loader[i].stable
        /\ Len(versions.game) > 1
        /\ ~versions.game[1].stable
        /\ versions.game[2].stable

\* C28: once the request for the base manifest has failed, no access to
\* Versions.manifest or to a view sends another request or replaces the
\* memoized promise, and every view that receives the manifest promise fails
\* with the rejection of that one request, without reading the cache file or
\* requesting metadata
ManifestFailureKept ==
  [][manifestP.st = "rejected" =>
       /\ manifestP' = manifestP
       /\ manifestReqs' = manifestReqs
       /\ \A v \in DOMAIN views :
            views[v].pc = "manifest" /\ views'[v].pc # "manifest" =>
              /\ views'[v].pc = "failed"
              /\ views'[v].got = manifestP.by
              /\ fileReads' = fileReads
              /\ metaReqs' = metaReqs]_vars

\* the only request for the manifest has failed and two views have failed
\* with its rejection
ManifestFailureShared ==
  /\ manifestP.st = "rejected"
  /\ manifestReqs = 1
  /\ Len(views) >= 2
  /\ \A v \in DOMAIN views : views[v].pc = "failed" /\ views[v].got = manifestP.by

\* a call of op on the store has settled with status
StoreCall(op, status) == propRet.op = op /\ propRet.status = status

\* the lines of a properties file: a comment starts with '#', a blank line
\* is empty, a key=value line has a non-empty name before its first '='
IsComment(line) == Len(line) >= 1 /\ line[1] = "#"

IsBlank(line) == line = <<>>

IsKeyValue(line) ==
  /\ Separators(line) # {}
  /\ Min(Separators(line)) > 1
  /\ line[1] # "#"

IsPropertiesFile(lines) ==
  \A i \in DOMAIN lines : IsComment(lines[i]) \/ IsBlank(lines[i]) \/ IsKeyValue(lines[i])

\* C24: for a file of comment, blank and key=value lines that has been
\* loaded, setProperties([]) writes back the lines it was loaded from
RoundTrip ==
  [][/\ propOp.pc = "set" /\ propOp.properties = <<>>
     /\ StoreCall("set", "ok")'
     /\ propFile.exists /\ IsPropertiesFile(propFile.lines)
     /\ propData = ParseLines(propFile.lines)
     => propFile'.lines = propFile.lines]_vars

SplitAtFirstSeparator ==
  StoreCall("load", "ok") =>
    \A i \in DOMAIN propFile.lines :
      LET line == propFile.lines[i]
          e == Min(Separators(line))
      IN IsKeyValue(line) =>
           /\ propData[i].kind = "KeyValue"
           /\ propData[i].name = SubSeq(line, 1, e - 1)
           /\ propData[i].value = SubSeq(line, e + 1, Len(line))

\* C27: on an install directory without server.properties a load of the
\* store succeeds and leaves the store empty, and the load a ready record
\* triggers logs no failure
MissingFileLoads ==
  ~propFile.exists =>
    /\ propRet.op = "load" /\ propRet.status # "pending" =>
         propRet.status = "ok" /\ propData = <<>>
    /\ \A i \in DOMAIN logs : logs[i].content # "Failed to load properties."

\* ---- properties of the provisioners ----

\* the step is the call of a provisioner
ProvisionerCalled ==
  /\ prov'.n = prov.n + 1
  /\ prov'.op \in {"buildJar", "buildServerJar", "downloadJar"}

\* C22: a provisioner of any class called with force = false while the jar
\* exists returns at once: the call requests no manifest, no view and no
\* metadata, downloads nothing, spawns no build, writes no file and leaves
\* the configured version, loader and installer as they were.
ForcelessCallIsNoop ==
  [][ProvisionerCalled /\ ~prov'.force /\ jar.exists
       => /\ prov'.pc = "done"
          /\ downloads' = <<>> /\ builds' = 0
          /\ UNCHANGED <<manifestP, manifestReqs, metaReqs, views, fabricP, spigotP>>
          /\ UNCHANGED <<cfg, jar, infoFile, buildtool, buildjar, file>>]_vars

\* C22 witness: downloadJar(false) has returned with the jar in place
ForcelessCallReturned ==
  /\ prov.op = "downloadJar" /\ ~prov.force /\ prov.pc = "done"
  /\ jar.exists /\ downloads = <<>>
  /\ fabricP = FabricUnset

\* a provisioner, called directly or by start(), has returned after it
\* downloaded or built the artifact
Rebuilt ==
  /\ prov.op \in {"buildJar", "buildServerJar", "downloadJar", "start"}
  /\ prov.pc = "done"
  /\ downloads # <<>> \/ builds > 0

\* the identity getVersionInfo(true) derives from the artifact on disk: the
\* version.json embedded in the jar, or the configured version
Derived == Info(IF jar.hasInfo THEN jar.id ELSE cfg.version)

\* C23: when a provisioner of any class has rebuilt the artifact, a
\* version.json in the install directory is the identity derived from the
\* new artifact: the identity of an artifact installed before is gone.
IdentityRederived == Rebuilt /\ infoFile.exists => infoFile = Derived

\* C29: when start() on a Fabric supervisor has obtained the artifact, what
\* it downloaded is the URL composed of version, loader and installer, and
\* the jar in the install directory is the Fabric server.
FabricStartUsesLoader ==
  variant = "fabric" /\ prov.op = "start" /\ downloads # <<>> =>
    /\ \A i \in DOMAIN downloads :
         downloads[i] = Url("fabric", cfg.version, cfg.loader, cfg.installer)
    /\ prov.pc = "done" => jar.kind = "fabric"

\* the step is the call of validateVersion() or a step taken while the call
\* is in progress
ValidateVersionRuns ==
  /\ prov'.op = "validateVersion"
  /\ prov'.n = prov.n + 1 \/ prov.pc \notin {"done", "failed"}

\* C30: from its call to its answer validateVersion() causes no request for
\* the version manifest and none for a version's metadata, with or without
\* a configured version.
ValidateVersionOffline ==
  [][ValidateVersionRuns => UNCHANGED <<manifestReqs, metaReqs>>]_vars

\* the upstream manifest has no version with the id of the configured
\* version and a server artifact (a version still to be resolved has no id)
Unavailable ==
  cfg.version \notin {id \in Range(manifestDoc) : "server" \in Metadata(id).downloads}

\* the errors Server.buildJar throws for a version it cannot provide
NoArtifactErrors ==
  {"Unable to find version info.", "The version provided doesn't have a server jar"}

\* C31: Server.buildJar, called directly or by start(), for a version that
\* has no server artifact or is not in the manifest never reaches its
\* download and never returns normally, so nothing is written to the jar
\* path; when it throws for that reason inside start(), the state is
\* Crashed, the error is logged and start() has failed to its caller.
NoArtifactFailsClean ==
  /\ Unavailable /\ prov.op \in {"buildJar", "start"} /\ variant # "spigot" =>
       /\ downloads = <<>>
       /\ prov.pc # "bj-dl" /\ prov.gvi # "built"
  /\ prov.error \in NoArtifactErrors =>
       /\ prov.pc = "failed" /\ Unavailable
       /\ prov.op = "start" =>
            /\ state = "CRASHED" /\ startRet = "error"
            /\ logs = <<[type |-> "ERROR", content |-> prov.error]>>
            /\ events = <<StateUpdateEvent("CRASHED"), MessageEvent("ERROR", prov.error)>>

\* C31 witness: start() for a version without a server artifact has failed
NoArtifactStartCrashed ==
  /\ prov.op = "start" /\ prov.pc = "failed"
  /\ cfg.version = "r0" /\ "r0" \in Range(manifestDoc)
  /\ prov.error = "Unable to find version info."
  /\ state = "CRASHED" /\ startRet = "error" /\ downloads = <<>>

\* the records of the text of the latest 'data' event
RecordsOf(text) == SelectSeq(text, LAMBDA t : t.kind = "record")

\* C32: in a chunk that starts with a record, text on a line that does not
\* begin with the prefix continues the record before it: the handler emits
\* one message per record of the chunk and none for the continuation lines.
ContinuationJoined ==
  data.text # <<>> /\ Head(data.text).kind = "record" =>
    /\ Len(data.messages) = Len(RecordsOf(data.text))
    /\ Len(SelectSeq(events, LAMBDA e : e.ev = "message" /\ e.arg \in RecordContents))
         = Len(RecordsOf(data.text))

\* the exit of a child has been handled and no child is alive
ExitHandled ==
  /\ \E c \in Children : child[c] = "exited"
  /\ \A c \in Children : child[c] \notin {"alive", "failing"}

\* this step is a start() that is accepted
StartAccepted ==
  call'.n = call.n + 1 /\ call'.op = "start" /\ call'.status = "accepted"

\* C33: once the exit of the child has been handled, the state is Stopped or
\* Crashed and only an accepted start() moves it elsewhere: no record of the
\* exited child delivered afterwards makes it Running or Stopping.
DownUntilStart ==
  [][ExitHandled /\ state \in {"STOPPED", "CRASHED"} /\ ~StartAccepted
       => state' \in {"STOPPED", "CRASHED"}]_vars

\* C34: whenever the state is Running, the stored process handle is defined
\* and is the handle of a child that is alive.
RunningHasLiveChild ==
  state = "RUNNING" => process # 0 /\ child[process] = "alive"

\* every view requested so far has returned its manifest: no request, read
\* or write of any of them failed
AllViewsDone ==
  views # <<>> /\ \A v \in DOMAIN views : views[v].pc = "done"

\* C35: whatever the interleaving of the views, no view fails because the
\* map getVersionData returned lacks an entry of the manifest, and once all
\* views have returned, the cache file holds every entry that was fetched.
ViewsShareFacts ==
  /\ \A v \in DOMAIN views : views[v].error # "TypeError"
  /\ AllViewsDone =>
       \A i \in DOMAIN heap : DOMAIN heap[i] \subseteq DOMAIN file.map

\* C36: when the batch of metadata requests of a getVersionData call fails,
\* the call fails with that rejection, no map of the in-memory cache gains
\* an entry and the cache file is left as it is.
FailedBatchStoresNothing ==
  [][\A v \in DOMAIN views :
       views[v].pc = "fetch" /\ views'[v].pc # "fetch" /\ views'[v].pc # "save"
         => /\ views'[v].pc = "failed" /\ views'[v].error = "rejected"
            /\ heap' = heap /\ versionsRef' = versionsRef
            /\ file' = file]_vars

\* C36 witness: the only view has failed in its batch: metadata was
\* requested, the map is still empty and no cache file exists
BatchFailed ==
  /\ Len(views) = 1 /\ views[1].pc = "failed" /\ views[1].error = "rejected"
  /\ \E id \in Known : metaReqs[id] > 0
  /\ heap = <<EmptyMap>> /\ ~file.exists

\* the line is a key=value line whose name is the name of one of the pairs
Matched(line, properties) ==
  /\ ParseLine(line).kind = "KeyValue"
  /\ \E i \in DOMAIN properties : properties[i].name = ParseLine(line).name

\* C37: a setProperties call on a store that has never loaded its file,
\* while the file exists and has lines, keeps the file's content: every
\* line that is not a key=value line of one of the given names is still in
\* the file when the call has succeeded.
UnloadedSetKeepsFile ==
  [][/\ propOp.pc = "set" /\ StoreCall("set", "ok")'
     /\ propData = <<>> /\ propFile.exists /\ propFile.lines # <<>>
     => \A i \in DOMAIN propFile.lines :
          ~Matched(propFile.lines[i], propOp.properties) =>
            \E j \in DOMAIN propFile'.lines : propFile'.lines[j] = propFile.lines[i]]_vars

\* C38: when a load started by a ready record and a setProperties have both
\* completed, the store's data is the parse of the file's content
LoadAndSetAgree ==
  /\ chunks > 0 /\ loads = 0
  /\ propOp.pc = "idle" /\ StoreCall("set", "ok")
  => propData = ParseLines(propFile.lines)

\* C39: the fields of a supervisor that its constructor was given no option
\* for hold the declared defaults, whatever was constructed before it
OwnArgumentsOnly ==
  \A i \in DOMAIN servers :
    \A k \in OptionKeys \ servers[i].given :
      servers[i].fields[k] = DeclaredOptions[k]

====
